---- MODULE Spec2Model ----
(***************************************************************************)
(* Token / credential lifecycle of the multi-tenant auth service.          *)
(*                                                                         *)
(* The durable store (database.py) is the only shared state.  Every        *)
(* db_manager call is its own committed transaction, so every orchestrator *)
(* operation (services/auth_service.py) and token operation                *)
(* (services/token_service.py) is a sequence of atomic store steps run by  *)
(* a request worker; local computation is merged with the store step that  *)
(* precedes it.  created_at / updated_at stamps are not kept: expires_at   *)
(* is the only time stamp the code ever reads back.                        *)
(***************************************************************************)
EXTENDS Integers, FiniteSets, TLC

\* ------------------------------------------------------------------ bounds
MaxUsers == 3       \* user rows ever inserted (ids 1..MaxUsers)
MaxTokens == 2      \* token strings minted from Init on (all kinds together)
MaxTime == 2        \* the clock runs 0..MaxTime
MaxCalls == 3       \* operations started while workers run concurrently
MaxSites == 3       \* site rows ever inserted (ids 1..MaxSites)

\* ------------------------------------------------------- program constants
AUTH_TOKEN_EXPIRATION == 1
EMAIL_VERIFICATION_EXPIRATION == 1
PASSWORD_RESET_EXPIRATION == 1
EMAIL_CHANGE_EXPIRATION == 1

\* ------------------------------------------------------------ input domains
Workers == {"w1", "w2"}
Sites == {1, 2}
Emails == {"a", "b"}
Passwords == {"p", "q"}
None == ""                      \* Python None for a str argument
Roles == {"user", "admin"}
Salts == {"s1"}
TokenStrings == 1..MaxTokens
UserIds == 1..MaxUsers
SiteIds == 1..MaxSites
Names == {"n1", "n2"}
Domains == {"d1", "d2", "d3"}
ApiKeys == {None, "k", "x"}     \* X-API-Key as sent: missing, or a string
NotifierOutcomes == {"sent", "failed", "raised"}  \* True, False, an exception

VARIABLES
  users,                        \* table users
  next_user_id,                 \* users.id SERIAL
  auth_tokens,                  \* table auth_tokens
  email_verification_tokens,    \* table email_verification_tokens
  password_reset_tokens,        \* table password_reset_tokens
  email_change_requests,        \* table email_change_requests
  next_token,                   \* secrets.token_urlsafe: never the same twice
  now,                          \* int(time.time())
  pc,                           \* per worker: position in its operation
  loc,                          \* per worker: arguments, locals, outcome
  consumed,                     \* history: tokens a consume call succeeded on
  calls,                        \* history: operations started concurrently
  sites,                        \* table sites
  MASTER_API_KEY,               \* config.MASTER_API_KEY, '' when not set
  pool_initialized,             \* db_manager._pool_initialized
  connection_pool,              \* db_manager.connection_pool: None, or who made it
  reachable                     \* environment: the database accepts connections

store == <<users, next_user_id, auth_tokens, email_verification_tokens,
           password_reset_tokens, email_change_requests, next_token>>
vars == <<users, next_user_id, auth_tokens, email_verification_tokens,
          password_reset_tokens, email_change_requests, next_token, now,
          pc, loc, consumed, calls, sites, MASTER_API_KEY,
          pool_initialized, connection_pool, reachable>>
pool == <<pool_initialized, connection_pool, reachable>>

\* ------------------------------------------------------------ password hasher
NullHash == [salt |-> "", pw |-> ""]          \* users.password_hash IS NULL

hash_password(password, salt) == [salt |-> salt, pw |-> password]

\* mutant: any password verifies against any digest
verify_password_any(password, password_hash) == TRUE

\* mutant: the comparison looks at the salt only, never at the password
verify_password_salt_only(password, password_hash) == password_hash.salt # ""

\* bcrypt.checkpw recomputes with the salt embedded in the digest
verify_password(password, password_hash) == password_hash.pw = password

\* password.encode / password_hash.encode on None: AttributeError
hash_password_raises(password) == password = None
verify_password_raises(password, password_hash) ==
  password = None \/ password_hash = NullHash

\* ----------------------------------------------------------------- records
NoUser == [id |-> 0, site_id |-> 0, email |-> "", password_hash |-> NullHash,
           is_verified |-> FALSE, role |-> "user"]

User(id, site_id, email, password_hash, is_verified, role) ==
  [id |-> id, site_id |-> site_id, email |-> email,
   password_hash |-> password_hash, is_verified |-> is_verified, role |-> role]

Idle == [op |-> "", site_id |-> 0, email |-> "", password |-> "",
         new_password |-> "", role |-> "user", token |-> 0, user_id |-> 0,
         user |-> NoUser, new_email |-> "", res |-> "", ret |-> 0,
         current_time |-> 0, pre |-> {}, stale |-> FALSE, listed |-> {},
         api_key |-> "", name |-> "", domain |-> "", notified |-> "",
         deleted |-> {}, redirect_url |-> ""]

\* --------------------------------------------------------- store: users
find_user_by_id(user_id) ==
  IF \E u \in users : u.id = user_id
  THEN CHOOSE u \in users : u.id = user_id
  ELSE NoUser

\* mutant: the lookup has lost its site_id condition
find_user_by_email_any_site(site_id, email) ==
  IF \E u \in users : u.email = email
  THEN CHOOSE u \in users : u.email = email
  ELSE NoUser

find_user_by_email(site_id, email) ==
  IF \E u \in users : u.site_id = site_id /\ u.email = email
  THEN CHOOSE u \in users : u.site_id = site_id /\ u.email = email
  ELSE NoUser

\* mutant: the SELECT has lost its WHERE site_id clause
list_users_by_site_all(site_id) == users

\* SELECT ... FROM users WHERE site_id = %s (ORDER BY id: the rows as a set)
list_users_by_site(site_id) == {u \in users : u.site_id = site_id}

\* mutant: table users carries no constraint
users_constraints_none(table) == TRUE

\* the constraints of table users: PRIMARY KEY (id), UNIQUE (site_id, email);
\* a statement whose result breaks one fails with a store conflict
users_constraints(table) ==
  \A u, v \in table :
    (u.id = v.id \/ (u.site_id = v.site_id /\ u.email = v.email)) => u = v

\* INSERT INTO users ... RETURNING id
create_user(user) == users \cup {[user EXCEPT !.id = next_user_id]}

\* UPDATE users SET email, password_hash, is_verified, role WHERE id = user.id
\* mutant: every UPDATE of a user sets is_verified
update_user_sets_verified(user) ==
  {u \in users : u.id # user.id} \cup
  {[u EXCEPT !.email = user.email, !.password_hash = user.password_hash,
             !.is_verified = TRUE, !.role = user.role]
     : u \in {x \in users : x.id = user.id}}

\* mutant: the UPDATE has lost its email column
update_user_keeps_email(user) ==
  {u \in users : u.id # user.id} \cup
  {[u EXCEPT !.password_hash = user.password_hash,
             !.is_verified = user.is_verified, !.role = user.role]
     : u \in {x \in users : x.id = user.id}}

update_user(user) ==
  {u \in users : u.id # user.id} \cup
  {[u EXCEPT !.email = user.email, !.password_hash = user.password_hash,
             !.is_verified = user.is_verified, !.role = user.role]
     : u \in {x \in users : x.id = user.id}}

\* --------------------------------------------------------- store: sites
NoSite == [id |-> 0, name |-> "", domain |-> "", frontend_url |-> "",
           verification_redirect_url |-> ""]

\* Site.get_verification_redirect_url
get_verification_redirect_url(site) ==
  IF site.verification_redirect_url # "" THEN site.verification_redirect_url
  ELSE site.frontend_url

find_site_by_id(site_id) ==
  IF \E x \in sites : x.id = site_id
  THEN CHOOSE x \in sites : x.id = site_id
  ELSE NoSite

\* the constraints of table sites: PRIMARY KEY (id), UNIQUE (domain)
sites_constraints(table) ==
  \A x, y \in table : (x.id = y.id \/ x.domain = y.domain) => x = y

\* INSERT INTO sites ... RETURNING id
create_site_row(site) ==
  sites \cup {[site EXCEPT !.id = Cardinality(sites) + 1]}

\* UPDATE sites SET name, domain, ... WHERE id = site.id
update_site_row(site) ==
  {x \in sites : x.id # site.id} \cup
  {[x EXCEPT !.name = site.name, !.domain = site.domain]
     : x \in {y \in sites : y.id = site.id}}

\* -------------------------------------------------------- store: tokens
\* mutant: the token tables carry no reference to users
references_user_unchecked(t) == TRUE

\* FOREIGN KEY (user_id) REFERENCES users (id) of the four token tables: an
\* INSERT for a user that is not stored fails with a store conflict
references_user(t) == \E u \in users : u.id = t.user_id

\* the DELETE of a user row fails while a token row the transaction has not
\* deleted refers to it
referenced(user_id, deleted) ==
  \E t \in auth_tokens \cup email_verification_tokens
            \cup password_reset_tokens \cup email_change_requests :
    t.user_id = user_id /\ t.token \notin deleted

find_auth_token_by_token(token) == {t \in auth_tokens : t.token = token}
find_email_verification_token(token) ==
  {t \in email_verification_tokens : t.token = token}
find_password_reset_token(token) ==
  {t \in password_reset_tokens : t.token = token}
find_email_change_request(token) ==
  {t \in email_change_requests : t.token = token}

\* mutant: the insert replaces the user's earlier sessions
db_create_auth_token_single(auth_token) ==
  {t \in auth_tokens : t.user_id # auth_token.user_id} \cup {auth_token}

\* INSERT INTO auth_tokens
db_create_auth_token(auth_token) == auth_tokens \cup {auth_token}

\* mutant: the DELETE takes every session of the token's user along
delete_auth_token_of_owner(token) ==
  {t \in auth_tokens :
     \A x \in auth_tokens : x.token = token => t.user_id # x.user_id}

delete_auth_token(token) == {t \in auth_tokens : t.token # token}
\* mutant: the DELETE has lost its WHERE user_id clause
delete_auth_tokens_by_user_all(user_id) == {}

delete_auth_tokens_by_user(user_id) ==
  {t \in auth_tokens : t.user_id # user_id}
\* mutant: the delete matches no row
delete_email_verification_token_keeps(token) == email_verification_tokens

delete_email_verification_token(token) ==
  {t \in email_verification_tokens : t.token # token}

\* mutant: the UPDATE has lost its WHERE token clause
mark_password_reset_token_used_all(token) ==
  {[t EXCEPT !.used = TRUE] : t \in password_reset_tokens}

\* mutant: the reset token is deleted like the other one-time kinds
mark_password_reset_token_used_deletes(token) ==
  {t \in password_reset_tokens : t.token # token}

mark_password_reset_token_used(token) ==
  {IF t.token = token THEN [t EXCEPT !.used = TRUE] ELSE t
     : t \in password_reset_tokens}
delete_email_change_request(token) ==
  {t \in email_change_requests : t.token # token}

\* mutant: the DELETE spares the rows flagged used
delete_expired_unused(table, current_time) ==
  {t \in table : \/ ~(t.expires_at < current_time)
                 \/ ("used" \in DOMAIN t /\ t.used)}

\* DELETE FROM <table> WHERE expires_at < current_time
delete_expired(table, current_time) ==
  {t \in table : ~(t.expires_at < current_time)}

\* mutant: the expiry comparison is turned around
expired_reversed(t) == t.expires_at > now

\* the expiry test every check / consume / validate makes
expired(t) == t.expires_at < now

\* ------------------------------------------------------------ token service
generate_token == next_token

\* a token-minting operation may start only while token strings are left
CanMint == next_token <= MaxTokens

\* mutant: every session is minted for site 1
create_auth_token_default_site(site_id, user_id) ==
  [token |-> generate_token, site_id |-> 1, user_id |-> user_id,
   expires_at |-> now + AUTH_TOKEN_EXPIRATION]

create_auth_token(site_id, user_id) ==
  [token |-> generate_token, site_id |-> site_id, user_id |-> user_id,
   expires_at |-> now + AUTH_TOKEN_EXPIRATION]

create_email_verification_token(site_id, user_id) ==
  [token |-> generate_token, site_id |-> site_id, user_id |-> user_id,
   expires_at |-> now + EMAIL_VERIFICATION_EXPIRATION]

create_password_reset_token(site_id, user_id) ==
  [token |-> generate_token, site_id |-> site_id, user_id |-> user_id,
   expires_at |-> now + PASSWORD_RESET_EXPIRATION, used |-> FALSE]

create_email_change_token(site_id, user_id, new_email) ==
  [token |-> generate_token, site_id |-> site_id, user_id |-> user_id,
   new_email |-> new_email, expires_at |-> now + EMAIL_CHANGE_EXPIRATION]

\* mutant: the session lookup without its expiry test
validate_auth_token_no_expiry(token) ==
  LET found == find_auth_token_by_token(token) IN
  IF found = {} THEN 0 ELSE (CHOOSE t \in found : TRUE).user_id

\* validate_auth_token: user_id, or 0 for None
validate_auth_token(token) ==
  LET found == find_auth_token_by_token(token) IN
  IF found = {} THEN 0
  ELSE LET auth_token == CHOOSE t \in found : TRUE IN
       IF expired(auth_token) THEN 0 ELSE auth_token.user_id

\* mutant: the check finds nothing
check_email_verification_token_none(token) == 0

\* check_email_verification_token: user_id, or 0 for None
check_email_verification_token(token) ==
  LET found == find_email_verification_token(token) IN
  IF found = {} THEN 0
  ELSE LET email_token == CHOOSE t \in found : TRUE IN
       IF expired(email_token) THEN 0 ELSE email_token.user_id

\* the guard of validate_email_verification_token, before its delete
email_verification_token_valid(token) ==
  \E t \in find_email_verification_token(token) : ~expired(t)

\* the guard of validate_password_reset_token, before its mark-used
password_reset_token_valid(token) ==
  \E t \in find_password_reset_token(token) : ~(t.used \/ expired(t))

\* the guard of validate_email_change_token, before its delete
email_change_token_valid(token) ==
  \E t \in find_email_change_request(token) : ~expired(t)

\* ------------------------------------------------- best-effort notification
\* "if site: try: email_service.send_...": what the notifier did, "" when it
\* was not called
notify(site, outcome) == IF site = NoSite THEN "" ELSE outcome

\* mutant: an exception of the notifier leaves the operation
after_notify_propagates(outcome) ==
  IF outcome = "raised" THEN "NotifierError" ELSE "ok"

\* "except Exception: logger.error(...)": the operation goes on to its return
after_notify(outcome) == "ok"

\* ---------------------------------------------------------------- workers
Goto(w, p, l) ==
  /\ pc' = [pc EXCEPT ![w] = p]
  /\ loc' = [loc EXCEPT ![w] = l]

\* the operation ends: returns ret (res = "ok") or raises res
Finish(w, l, res, ret) == Goto(w, "done", [l EXCEPT !.res = res, !.ret = ret])

Call(op) == [Idle EXCEPT !.op = op]

\* the caller takes the outcome; the worker is free for the next request
Return(w) ==
  /\ pc[w] = "done"
  /\ Goto(w, "idle", Idle)
  /\ UNCHANGED <<store, now, consumed>>

Tick ==
  /\ now < MaxTime
  /\ now' = now + 1
  /\ UNCHANGED <<store, pc, loc, consumed>>

\* --------------------------------------------- AuthService.register_user
\* (password, role) as the callers pass them: api/register.py gives a password
\* and leaves the role to its default; api/admin_register.py gives password=None
\* and the requested role
RegisterCalls == {<<password, "user">> : password \in Passwords} \cup
                 {<<None, role>> : role \in Roles}

\* find_user_by_email, then hash_password
register_find(w) ==
  /\ pc[w] = "idle"
  /\ \E site_id \in Sites, email \in Emails, call \in RegisterCalls,
        salt \in Salts :
       LET password == call[1]
           role == call[2]
           l == [Call("register_user") EXCEPT !.site_id = site_id,
                   !.email = email, !.password = password, !.role = role] IN
       IF find_user_by_email(site_id, email) # NoUser
       THEN Finish(w, l, "DuplicateCredential", 0)
       ELSE IF hash_password_raises(password)
       THEN Finish(w, l, "AttributeError", 0)
       ELSE /\ next_user_id <= MaxUsers /\ CanMint
            /\ Goto(w, "register_create",
                    [l EXCEPT !.user = User(0, site_id, email,
                       hash_password(password, salt), FALSE, role)])
  /\ UNCHANGED <<store, now, consumed>>

\* db_manager.create_user
register_create(w) ==
  /\ pc[w] = "register_create"
  /\ IF ~users_constraints(create_user(loc[w].user))
     THEN /\ Finish(w, loc[w], "IntegrityError", 0)
          /\ UNCHANGED <<users, next_user_id>>
     ELSE /\ next_user_id <= MaxUsers
          /\ users' = create_user(loc[w].user)
          /\ next_user_id' = next_user_id + 1
          /\ Goto(w, "register_token",
                  [loc[w] EXCEPT !.user.id = next_user_id])
  /\ UNCHANGED <<auth_tokens, email_verification_tokens, password_reset_tokens,
                 email_change_requests, next_token, now, consumed>>

\* create_email_verification_token, find_site_by_id, then the best-effort
\* verification email
register_token(w) ==
  /\ pc[w] = "register_token"
  /\ CanMint
  /\ LET t == create_email_verification_token(loc[w].site_id, loc[w].user.id) IN
     IF ~references_user(t)
     THEN Finish(w, loc[w], "IntegrityError", 0)
          /\ UNCHANGED <<email_verification_tokens, next_token>>
     ELSE
     /\ email_verification_tokens' = email_verification_tokens \cup {t}
     /\ next_token' = next_token + 1
     /\ \E outcome \in NotifierOutcomes :
          Finish(w, [loc[w] EXCEPT !.notified =
                       notify(find_site_by_id(loc[w].site_id), outcome)],
                 after_notify(outcome), loc[w].user.id)
  /\ UNCHANGED <<users, next_user_id, auth_tokens, password_reset_tokens,
                 email_change_requests, now, consumed>>

\* ----------------------------------------------------- AuthService.login
\* mutant: login without the is_verified check
login_check_unverified_ok(user, password) ==
  IF user = NoUser THEN "InvalidCredentials"
  ELSE IF verify_password_raises(password, user.password_hash)
  THEN "AttributeError"
  ELSE IF ~verify_password(password, user.password_hash)
  THEN "InvalidCredentials"
  ELSE ""

\* mutant: is_verified is tested before the password
login_check_verified_first(user, password) ==
  IF user = NoUser THEN "InvalidCredentials"
  ELSE IF ~user.is_verified THEN "EmailNotVerified"
  ELSE IF verify_password_raises(password, user.password_hash)
  THEN "AttributeError"
  ELSE IF ~verify_password(password, user.password_hash)
  THEN "InvalidCredentials"
  ELSE ""

\* the checks of login on the row it found, in the code's order; "" passes
login_check(user, password) ==
  IF user = NoUser THEN "InvalidCredentials"
  ELSE IF verify_password_raises(password, user.password_hash)
  THEN "AttributeError"
  ELSE IF ~verify_password(password, user.password_hash)
  THEN "InvalidCredentials"
  ELSE IF ~user.is_verified THEN "EmailNotVerified"
  ELSE ""

\* find_user_by_email, verify_password, is_verified
login_find(w) ==
  /\ pc[w] = "idle"
  /\ \E site_id \in Sites, email \in Emails, password \in Passwords :
       LET l == [Call("login") EXCEPT !.site_id = site_id, !.email = email,
                   !.password = password,
                   !.user = find_user_by_email(site_id, email)] IN
       IF login_check(l.user, password) # ""
       THEN Finish(w, l, login_check(l.user, password), 0)
       ELSE CanMint /\ Goto(w, "login_token", l)
  /\ UNCHANGED <<store, now, consumed>>

\* token_service.create_auth_token
login_token(w) ==
  /\ pc[w] = "login_token"
  /\ CanMint
  /\ LET t == create_auth_token(loc[w].site_id, loc[w].user.id) IN
     IF ~references_user(t)
     THEN Finish(w, loc[w], "IntegrityError", 0)
          /\ UNCHANGED <<auth_tokens, next_token>>
     ELSE
     /\ auth_tokens' = db_create_auth_token(t)
     /\ next_token' = next_token + 1
     /\ Finish(w, loc[w], "ok", t.token)
  /\ UNCHANGED <<users, next_user_id, email_verification_tokens,
                 password_reset_tokens, email_change_requests, now, consumed>>

\* ---------------------------------------------------- AuthService.logout
logout(w) ==
  /\ pc[w] = "idle"
  /\ \E token \in TokenStrings :
       /\ auth_tokens' = delete_auth_token(token)
       /\ Finish(w, [Call("logout") EXCEPT !.token = token],
                 IF find_auth_token_by_token(token) # {} THEN "ok"
                 ELSE "TokenNotFound", 0)
  /\ UNCHANGED <<users, next_user_id, email_verification_tokens,
                 password_reset_tokens, email_change_requests, next_token,
                 now, consumed>>

\* one more successful consume of this token string, by operation op
Consumed(token, op) == [consumed EXCEPT ![token] = [n |-> @.n + 1, by |-> op]]

\* ------------------------- token_service.check_email_verification_token
check_token(w) ==
  /\ pc[w] = "idle"
  /\ \E token \in TokenStrings :
       LET l == [Call("check_email_verification_token") EXCEPT
                   !.token = token, !.stale = consumed[token].n > 0]
           user_id == check_email_verification_token(token) IN
       IF user_id = 0 THEN Finish(w, l, "InvalidOrExpiredToken", 0)
       ELSE Finish(w, l, "ok", user_id)
  /\ UNCHANGED <<store, now, consumed>>

\* AuthService.get_user_by_token
get_user_by_token(token) ==
  IF validate_auth_token(token) = 0 THEN NoUser
  ELSE find_user_by_id(validate_auth_token(token))

\* --------------- token_service.validate_auth_token (the session guard)
validate_session(w) ==
  /\ pc[w] = "idle"
  /\ \E token \in TokenStrings :
       LET l == [Call("validate_auth_token") EXCEPT !.token = token]
           user_id == validate_auth_token(token) IN
       IF user_id = 0 THEN Finish(w, l, "Unauthenticated", 0)
       ELSE Finish(w, l, "ok", user_id)
  /\ UNCHANGED <<store, now, consumed>>

\* ------------------------------------------- AuthService.verify_email
\* validate_email_verification_token: find, expiry test
verify_find(w) ==
  /\ pc[w] = "idle"
  /\ \E token \in TokenStrings :
       LET l == [Call("verify_email") EXCEPT !.token = token,
                   !.stale = consumed[token].n > 0] IN
       IF ~email_verification_token_valid(token)
       THEN Finish(w, l, "InvalidOrExpiredToken", 0)
       ELSE Goto(w, "verify_delete",
                 [l EXCEPT !.user_id =
                    (CHOOSE t \in find_email_verification_token(token) : TRUE).user_id])
  /\ UNCHANGED <<store, now, consumed>>

\* validate_email_verification_token: delete, return user_id
verify_delete(w) ==
  /\ pc[w] = "verify_delete"
  /\ email_verification_tokens' = delete_email_verification_token(loc[w].token)
  /\ consumed' = Consumed(loc[w].token, loc[w].op)
  /\ Goto(w, "verify_user", loc[w])
  /\ UNCHANGED <<users, next_user_id, auth_tokens, password_reset_tokens,
                 email_change_requests, next_token, now>>

\* find_user_by_id, is_verified = True on the local copy
verify_user(w) ==
  /\ pc[w] = "verify_user"
  /\ LET user == find_user_by_id(loc[w].user_id) IN
     IF user = NoUser THEN Finish(w, loc[w], "UserNotFound", 0)
     ELSE Goto(w, "verify_update",
               [loc[w] EXCEPT !.user = [user EXCEPT !.is_verified = TRUE]])
  /\ UNCHANGED <<store, now, consumed>>

\* db_manager.update_user of whichever operation holds the local copy
update_step(w, at, next) ==
  /\ pc[w] = at
  /\ IF ~users_constraints(update_user(loc[w].user))
     THEN Finish(w, loc[w], "IntegrityError", 0) /\ UNCHANGED users
     ELSE /\ users' = update_user(loc[w].user)
          /\ IF next = "done" THEN Finish(w, loc[w], "ok", loc[w].user.id)
             ELSE Goto(w, next, loc[w])
  /\ UNCHANGED <<next_user_id, auth_tokens, email_verification_tokens,
                 password_reset_tokens, email_change_requests, next_token,
                 now, consumed>>

verify_update(w) == update_step(w, "verify_update", "done")

\* token_service.invalidate_user_tokens, the last step of both password changes
invalidate_step(w, at) ==
  /\ pc[w] = at
  /\ auth_tokens' = delete_auth_tokens_by_user(loc[w].user_id)
  /\ Finish(w, loc[w], "ok", loc[w].user_id)
  /\ UNCHANGED <<users, next_user_id, email_verification_tokens,
                 password_reset_tokens, email_change_requests, next_token,
                 now, consumed>>

\* ----------------------------------------- AuthService.change_password
\* find_user_by_id, verify_password(old), hash_password(new)
change_find(w) ==
  /\ pc[w] = "idle"
  /\ \E user_id \in UserIds, old_password \in Passwords,
        new_password \in Passwords, salt \in Salts :
       LET user == find_user_by_id(user_id)
           l == [Call("change_password") EXCEPT !.user_id = user_id,
                   !.password = old_password, !.new_password = new_password,
                   !.pre = auth_tokens] IN
       IF user = NoUser THEN Finish(w, l, "UserNotFound", 0)
       ELSE IF verify_password_raises(old_password, user.password_hash)
       THEN Finish(w, l, "AttributeError", 0)
       ELSE IF ~verify_password(old_password, user.password_hash)
       THEN Finish(w, l, "IncorrectPassword", 0)
       ELSE Goto(w, "change_update",
                 [l EXCEPT !.user = [user EXCEPT !.password_hash =
                                       hash_password(new_password, salt)]])
  /\ UNCHANGED <<store, now, consumed>>

change_update(w) == update_step(w, "change_update", "change_invalidate")
change_invalidate(w) == invalidate_step(w, "change_invalidate")

\* ----------------------------------- AuthService.request_password_reset
reqreset_find(w) ==
  /\ pc[w] = "idle"
  /\ \E site_id \in Sites, email \in Emails :
       LET user == find_user_by_email(site_id, email)
           l == [Call("request_password_reset") EXCEPT !.site_id = site_id,
                   !.email = email, !.user = user] IN
       IF user = NoUser THEN Finish(w, l, "ok", 0)
       ELSE CanMint /\ Goto(w, "reqreset_token", l)
  /\ UNCHANGED <<store, now, consumed>>

\* create_password_reset_token, find_site_by_id, then the best-effort reset
\* email
reqreset_token(w) ==
  /\ pc[w] = "reqreset_token"
  /\ CanMint
  /\ LET t == create_password_reset_token(loc[w].site_id, loc[w].user.id) IN
     IF ~references_user(t)
     THEN Finish(w, loc[w], "IntegrityError", 0)
          /\ UNCHANGED <<password_reset_tokens, next_token>>
     ELSE
     /\ password_reset_tokens' = password_reset_tokens \cup {t}
     /\ next_token' = next_token + 1
     /\ \E outcome \in NotifierOutcomes :
          Finish(w, [loc[w] EXCEPT !.notified =
                       notify(find_site_by_id(loc[w].site_id), outcome)],
                 after_notify(outcome), t.token)
  /\ UNCHANGED <<users, next_user_id, auth_tokens, email_verification_tokens,
                 email_change_requests, now, consumed>>

\* ------------------------------------- api/request_password_reset.py
\* mutant: the response tells whether a token was minted
request_password_reset_response_tells(res, ret) ==
  [status |-> 200,
   message |-> IF ret = 0 THEN "No account with that email"
               ELSE "If the email exists, a password reset link has been sent"]

\* what the endpoint answers for an outcome of the orchestrator call: the
\* result is dropped, ValueError is passed over, anything else is a 500
request_password_reset_response(res, ret) ==
  IF res = "ok"
  THEN [status |-> 200,
        message |-> "If the email exists, a password reset link has been sent"]
  ELSE [status |-> 500, message |-> res]

\* ------------------------------------------- AuthService.reset_password
\* validate_password_reset_token: find, used / expiry test
reset_find(w) ==
  /\ pc[w] = "idle"
  /\ \E token \in TokenStrings, new_password \in Passwords :
       LET l == [Call("reset_password") EXCEPT !.token = token,
                   !.new_password = new_password,
                   !.stale = consumed[token].n > 0] IN
       IF ~password_reset_token_valid(token)
       THEN Finish(w, l, "InvalidOrExpiredToken", 0)
       ELSE LET user_id ==
                  (CHOOSE t \in find_password_reset_token(token) : TRUE).user_id IN
            Goto(w, "reset_mark",
                 [l EXCEPT !.user_id = user_id, !.pre = auth_tokens])
  /\ UNCHANGED <<store, now, consumed>>

\* validate_password_reset_token: mark used, return user_id
reset_mark(w) ==
  /\ pc[w] = "reset_mark"
  /\ password_reset_tokens' = mark_password_reset_token_used(loc[w].token)
  /\ consumed' = Consumed(loc[w].token, loc[w].op)
  /\ Goto(w, "reset_user", loc[w])
  /\ UNCHANGED <<users, next_user_id, auth_tokens, email_verification_tokens,
                 email_change_requests, next_token, now>>

\* find_user_by_id, hash_password(new) on the local copy
reset_user(w) ==
  /\ pc[w] = "reset_user"
  /\ \E salt \in Salts :
       LET user == find_user_by_id(loc[w].user_id) IN
       IF user = NoUser THEN Finish(w, loc[w], "UserNotFound", 0)
       ELSE Goto(w, "reset_update",
                 [loc[w] EXCEPT !.user = [user EXCEPT !.password_hash =
                                   hash_password(loc[w].new_password, salt)]])
  /\ UNCHANGED <<store, now, consumed>>

reset_update(w) == update_step(w, "reset_update", "reset_invalidate")
reset_invalidate(w) == invalidate_step(w, "reset_invalidate")

\* ------------------------------------- AuthService.request_email_change
reqchange_user(w) ==
  /\ pc[w] = "idle"
  /\ \E user_id \in UserIds, new_email \in Emails :
       LET user == find_user_by_id(user_id)
           l == [Call("request_email_change") EXCEPT !.user_id = user_id,
                   !.new_email = new_email, !.user = user] IN
       IF user = NoUser THEN Finish(w, l, "UserNotFound", 0)
       ELSE CanMint /\ Goto(w, "reqchange_email", l)
  /\ UNCHANGED <<store, now, consumed>>

\* mutant: the in-use test is skipped
reqchange_email_unchecked(w) ==
  /\ pc[w] = "reqchange_email"
  /\ Goto(w, "reqchange_token", loc[w])
  /\ UNCHANGED <<store, now, consumed>>

\* find_user_by_email(user.site_id, new_email)
reqchange_email(w) ==
  /\ pc[w] = "reqchange_email"
  /\ IF find_user_by_email(loc[w].user.site_id, loc[w].new_email) # NoUser
     THEN Finish(w, loc[w], "EmailInUse", 0)
     ELSE Goto(w, "reqchange_token", loc[w])
  /\ UNCHANGED <<store, now, consumed>>

\* create_email_change_token, find_site_by_id, then the best-effort mail to
\* the new address
reqchange_token(w) ==
  /\ pc[w] = "reqchange_token"
  /\ CanMint
  /\ LET t == create_email_change_token(loc[w].user.site_id, loc[w].user_id,
                                        loc[w].new_email) IN
     IF ~references_user(t)
     THEN Finish(w, loc[w], "IntegrityError", 0)
          /\ UNCHANGED <<email_change_requests, next_token>>
     ELSE
     /\ email_change_requests' = email_change_requests \cup {t}
     /\ next_token' = next_token + 1
     /\ \E outcome \in NotifierOutcomes :
          Finish(w, [loc[w] EXCEPT !.notified =
                       notify(find_site_by_id(loc[w].user.site_id), outcome)],
                 after_notify(outcome), t.token)
  /\ UNCHANGED <<users, next_user_id, auth_tokens, email_verification_tokens,
                 password_reset_tokens, now, consumed>>

\* ------------------------------------- AuthService.confirm_email_change
\* validate_email_change_token: find, expiry test
confirm_find(w) ==
  /\ pc[w] = "idle"
  /\ \E token \in TokenStrings :
       LET l == [Call("confirm_email_change") EXCEPT !.token = token,
                   !.stale = consumed[token].n > 0] IN
       IF ~email_change_token_valid(token)
       THEN Finish(w, l, "InvalidOrExpiredToken", 0)
       ELSE LET t == CHOOSE t \in find_email_change_request(token) : TRUE IN
            Goto(w, "confirm_delete",
                 [l EXCEPT !.user_id = t.user_id, !.new_email = t.new_email])
  /\ UNCHANGED <<store, now, consumed>>

\* validate_email_change_token: delete, return the request
confirm_delete(w) ==
  /\ pc[w] = "confirm_delete"
  /\ email_change_requests' = delete_email_change_request(loc[w].token)
  /\ consumed' = Consumed(loc[w].token, loc[w].op)
  /\ Goto(w, "confirm_user", loc[w])
  /\ UNCHANGED <<users, next_user_id, auth_tokens, email_verification_tokens,
                 password_reset_tokens, next_token, now>>

\* find_user_by_id, email = new_email on the local copy
confirm_user(w) ==
  /\ pc[w] = "confirm_user"
  /\ LET user == find_user_by_id(loc[w].user_id) IN
     IF user = NoUser THEN Finish(w, loc[w], "UserNotFound", 0)
     ELSE Goto(w, "confirm_update",
               [loc[w] EXCEPT !.user = [user EXCEPT !.email = loc[w].new_email]])
  /\ UNCHANGED <<store, now, consumed>>

confirm_update(w) == update_step(w, "confirm_update", "done")

\* ---------------------------------- TokenService.cleanup_expired_tokens
\* current_time is read once; each delete is its own transaction
cleanup_auth(w) ==
  /\ pc[w] = "idle"
  /\ auth_tokens' = delete_expired(auth_tokens, now)
  /\ Goto(w, "cleanup_verification",
          [Call("cleanup_expired_tokens") EXCEPT !.current_time = now])
  /\ UNCHANGED <<users, next_user_id, email_verification_tokens,
                 password_reset_tokens, email_change_requests, next_token,
                 now, consumed>>

cleanup_verification(w) ==
  /\ pc[w] = "cleanup_verification"
  /\ email_verification_tokens' =
       delete_expired(email_verification_tokens, loc[w].current_time)
  /\ Goto(w, "cleanup_reset", loc[w])
  /\ UNCHANGED <<users, next_user_id, auth_tokens, password_reset_tokens,
                 email_change_requests, next_token, now, consumed>>

cleanup_reset(w) ==
  /\ pc[w] = "cleanup_reset"
  /\ password_reset_tokens' =
       delete_expired(password_reset_tokens, loc[w].current_time)
  /\ Goto(w, "cleanup_change", loc[w])
  /\ UNCHANGED <<users, next_user_id, auth_tokens, email_verification_tokens,
                 email_change_requests, next_token, now, consumed>>

cleanup_change(w) ==
  /\ pc[w] = "cleanup_change"
  /\ email_change_requests' =
       delete_expired(email_change_requests, loc[w].current_time)
  /\ Finish(w, loc[w], "ok", 0)
  /\ UNCHANGED <<users, next_user_id, auth_tokens, email_verification_tokens,
                 password_reset_tokens, next_token, now, consumed>>

\* ------------------------------------------- utils/role_middleware.py
\* mutant: every role passes
role_allows_any(user, required_role) == TRUE

\* user.role != required_role answers 403
role_allows(user, required_role) == user.role = required_role

\* the guarded requests: the guard alone for either required role, and the
\* one endpoint of the source it decorates, GET /api/admin/users
RoleCalls == {<<"require_role", role>> : role \in Roles} \cup
             {<<"admin_list_users", "admin">>}

\* require_role: bearer token, validate_auth_token
require_role_token(w) ==
  /\ pc[w] = "idle"
  /\ \E token \in TokenStrings, call \in RoleCalls :
       LET l == [Call(call[1]) EXCEPT !.token = token, !.role = call[2]]
           user_id == validate_auth_token(token) IN
       IF user_id = 0 THEN Finish(w, l, "Unauthenticated", 0)
       ELSE Goto(w, "require_role_user", [l EXCEPT !.user_id = user_id])
  /\ UNCHANGED <<store, now, consumed>>

\* require_role: find_user_by_id, role comparison, then the handler
require_role_user(w) ==
  /\ pc[w] = "require_role_user"
  /\ LET user == find_user_by_id(loc[w].user_id)
         l == [loc[w] EXCEPT !.user = user] IN
     IF user = NoUser THEN Finish(w, l, "Unauthenticated", 0)
     ELSE IF ~role_allows(user, loc[w].role)
     THEN Finish(w, l, "Forbidden", 0)
     ELSE IF loc[w].op = "admin_list_users"
     THEN Goto(w, "admin_list_users", l)
     ELSE Finish(w, l, "ok", user.id)
  /\ UNCHANGED <<store, now, consumed>>

\* --------------------------------------------- api/admin_list_users.py
\* list_users_by_site(request.user.site_id)
admin_list_users(w) ==
  /\ pc[w] = "admin_list_users"
  /\ Finish(w, [loc[w] EXCEPT
                  !.listed = list_users_by_site(loc[w].user.site_id)],
            "ok", loc[w].user.id)
  /\ UNCHANGED <<store, now, consumed>>

\* ----------------------------------------- utils/api_key_middleware.py
\* require_master_api_key: "" lets the handler run
require_master_api_key(api_key) ==
  IF MASTER_API_KEY = "" THEN "NotConfigured"
  ELSE IF api_key = None THEN "Unauthenticated"
  ELSE IF api_key # MASTER_API_KEY THEN "Unauthenticated"
  ELSE ""

\* ------------------------------------------------- api/create_site.py
\* POST /api/sites: validate_request, then db_manager.create_site
create_site(w) ==
  /\ pc[w] = "idle"
  /\ \E api_key \in ApiKeys, name \in Names, domain \in Domains :
       LET l == [Call("create_site") EXCEPT !.api_key = api_key,
                   !.name = name, !.domain = domain]
           site == [id |-> 0, name |-> name, domain |-> domain,
                    frontend_url |-> "f3",
                    verification_redirect_url |-> None] IN
       IF ~sites_constraints(create_site_row(site))
       THEN Finish(w, l, "DomainExists", 0) /\ UNCHANGED sites
       ELSE /\ Cardinality(sites) < MaxSites
            /\ sites' = create_site_row(site)
            /\ Finish(w, l, "ok", Cardinality(sites) + 1)
  /\ UNCHANGED <<store, now, consumed, MASTER_API_KEY>>

\* ------------------------------------------------- api/update_site.py
\* PUT /api/sites/<id>: guard, find_site_by_id, db_manager.update_site;
\* None for a field the request leaves out
update_site(w) ==
  /\ pc[w] = "idle"
  /\ \E api_key \in ApiKeys, site_id \in SiteIds,
        name \in Names \cup {None}, domain \in Domains \cup {None} :
       LET l == [Call("update_site") EXCEPT !.api_key = api_key,
                   !.site_id = site_id, !.name = name, !.domain = domain]
           site == find_site_by_id(site_id)
           changed == [site EXCEPT
                         !.name = IF name = None THEN @ ELSE name,
                         !.domain = IF domain = None THEN @ ELSE domain] IN
       IF require_master_api_key(api_key) # ""
       THEN Finish(w, l, require_master_api_key(api_key), 0) /\ UNCHANGED sites
       ELSE IF name = None /\ domain = None
       THEN Finish(w, l, "NothingToUpdate", 0) /\ UNCHANGED sites
       ELSE IF site = NoSite
       THEN Finish(w, l, "SiteNotFound", 0) /\ UNCHANGED sites
       ELSE IF ~sites_constraints(update_site_row(changed))
       THEN Finish(w, l, "DomainExists", 0) /\ UNCHANGED sites
       ELSE sites' = update_site_row(changed) /\ Finish(w, l, "ok", site_id)
  /\ UNCHANGED <<store, now, consumed, MASTER_API_KEY>>

\* -------------------------------------------------- api/list_sites.py
list_sites(w) ==
  /\ pc[w] = "idle"
  /\ \E api_key \in ApiKeys :
       LET l == [Call("list_sites") EXCEPT !.api_key = api_key] IN
       IF require_master_api_key(api_key) # ""
       THEN Finish(w, l, require_master_api_key(api_key), 0)
       ELSE Finish(w, [l EXCEPT !.listed = sites], "ok", 0)
  /\ UNCHANGED <<store, now, consumed, sites, MASTER_API_KEY>>

\* -------------------------------------------------- api/list_users.py
\* GET /api/sites/<id>/users: guard, find_site_by_id, list_users_by_site
list_users_by_site_id(w) ==
  /\ pc[w] = "idle"
  /\ \E api_key \in ApiKeys, site_id \in SiteIds :
       LET l == [Call("list_users_by_site_id") EXCEPT !.api_key = api_key,
                   !.site_id = site_id] IN
       IF require_master_api_key(api_key) # ""
       THEN Finish(w, l, require_master_api_key(api_key), 0)
       ELSE IF find_site_by_id(site_id) = NoSite
       THEN Finish(w, l, "SiteNotFound", 0)
       ELSE Finish(w, [l EXCEPT !.listed = list_users_by_site(site_id)],
                   "ok", 0)
  /\ UNCHANGED <<store, now, consumed, sites, MASTER_API_KEY>>

\* ---------------------------------------------- api/admin_register.py
\* POST /api/admin/register: guard, then register_user(password=None), which
\* ends in its existence check or in hash_password
admin_register(w) ==
  /\ pc[w] = "idle"
  /\ \E api_key \in ApiKeys, site_id \in Sites, email \in Emails,
        role \in Roles :
       LET l == [Call("admin_register") EXCEPT !.api_key = api_key,
                   !.site_id = site_id, !.email = email, !.password = None,
                   !.role = role] IN
       IF require_master_api_key(api_key) # ""
       THEN Finish(w, l, require_master_api_key(api_key), 0)
       ELSE IF find_user_by_email(site_id, email) # NoUser
       THEN Finish(w, l, "DuplicateCredential", 0)
       ELSE IF hash_password_raises(None)
       THEN Finish(w, l, "AttributeError", 0)
       ELSE FALSE
  /\ UNCHANGED <<store, now, consumed, sites, MASTER_API_KEY>>

\* ------------------------------------------ api/resend_verification.py
\* POST /api/admin/resend-verification/<id>: guard, then
\* auth_service.resend_verification_email, a method AuthService does not have
resend_verification(w) ==
  /\ pc[w] = "idle"
  /\ \E api_key \in ApiKeys, user_id \in UserIds :
       LET l == [Call("resend_verification") EXCEPT !.api_key = api_key,
                   !.user_id = user_id] IN
       IF require_master_api_key(api_key) # ""
       THEN Finish(w, l, require_master_api_key(api_key), 0)
       ELSE Finish(w, l, "AttributeError", 0)
  /\ UNCHANGED <<store, now, consumed, sites, MASTER_API_KEY>>

\* ------------------------------------------------------------ specification
\* The store persists across requests: the service starts on an established
\* user base.  Two tenants each hold one self-registered, verified user (the
\* same address under both sites); their verification tokens are long consumed.
\* DatabaseManager.__init__ found the database: the pool it made is in place
PoolReady ==
  /\ pool_initialized = TRUE
  /\ connection_pool = "init"
  /\ reachable = TRUE

SeedUsers ==
  {User(1, 1, "a", hash_password("p", "s1"), TRUE, "user"),
   User(2, 2, "a", hash_password("q", "s1"), TRUE, "user")}

\* the two tenants the seeded users belong to
SeedSites ==
  {[id |-> 1, name |-> "n1", domain |-> "d1", frontend_url |-> "f1",
    verification_redirect_url |-> "r1"],
   [id |-> 2, name |-> "n2", domain |-> "d2", frontend_url |-> "f2",
    verification_redirect_url |-> None]}

InitWith(seed) ==
  /\ users = seed
  /\ next_user_id = Cardinality(seed) + 1
  /\ auth_tokens = {}
  /\ email_verification_tokens = {}
  /\ password_reset_tokens = {}
  /\ email_change_requests = {}
  /\ next_token = 1
  /\ now = 0
  /\ pc = [w \in Workers |-> "idle"]
  /\ loc = [w \in Workers |-> Idle]
  /\ consumed = [t \in TokenStrings |-> [n |-> 0, by |-> ""]]
  /\ calls = 0
  /\ sites = SeedSites
  /\ MASTER_API_KEY = "k"
  /\ PoolReady

Init == InitWith(SeedUsers)

Step(w) ==
  \/ register_find(w) \/ register_create(w) \/ register_token(w)
  \/ login_find(w) \/ login_token(w)
  \/ logout(w)
  \/ check_token(w)
  \/ validate_session(w)
  \/ verify_find(w) \/ verify_delete(w) \/ verify_user(w) \/ verify_update(w)
  \/ change_find(w) \/ change_update(w) \/ change_invalidate(w)
  \/ reqreset_find(w) \/ reqreset_token(w)
  \/ reset_find(w) \/ reset_mark(w) \/ reset_user(w) \/ reset_update(w)
  \/ reset_invalidate(w)
  \/ reqchange_user(w) \/ reqchange_email(w) \/ reqchange_token(w)
  \/ confirm_find(w) \/ confirm_delete(w) \/ confirm_user(w)
  \/ confirm_update(w)
  \/ cleanup_auth(w) \/ cleanup_verification(w) \/ cleanup_reset(w)
  \/ cleanup_change(w)
  \/ Return(w)

\* requests served one at a time
NextSeq ==
  (Tick \/ Step("w1")) /\ UNCHANGED <<calls, sites, MASTER_API_KEY, pool>>

\* requests served by concurrent workers
Concurrent(w) ==
  /\ pc[w] = "idle" => calls < MaxCalls
  /\ Step(w)
  /\ calls' = IF pc[w] = "idle" THEN calls + 1 ELSE calls

Next ==
  /\ (Tick /\ UNCHANGED calls) \/ \E w \in Workers : Concurrent(w)
  /\ UNCHANGED <<sites, MASTER_API_KEY, pool>>

SpecSeq == Init /\ [][NextSeq]_vars
Spec == Init /\ [][Next]_vars

\* A store that holds a row with password_hash NULL: the column is nullable
\* (admin_scripts/migrate-nullable-password.py) for accounts provisioned
\* without a password and not yet verified.
ProvisionedUsers ==
  {User(1, 1, "a", hash_password("p", "s1"), TRUE, "user"),
   User(2, 2, "a", NullHash, FALSE, "admin")}

InitProvisioned == InitWith(ProvisionedUsers)

SpecProvisioned == InitProvisioned /\ [][NextSeq]_vars

\* The same store with the provisioned row's verification token minted
\* (token_service.create_email_verification_token) and not yet consumed.
InitPending ==
  /\ users = ProvisionedUsers
  /\ next_user_id = Cardinality(ProvisionedUsers) + 1
  /\ auth_tokens = {}
  /\ email_verification_tokens =
       {[token |-> 1, site_id |-> 2, user_id |-> 2,
         expires_at |-> EMAIL_VERIFICATION_EXPIRATION]}
  /\ password_reset_tokens = {}
  /\ email_change_requests = {}
  /\ next_token = 2
  /\ now = 0
  /\ pc = [w \in Workers |-> "idle"]
  /\ loc = [w \in Workers |-> Idle]
  /\ consumed = [t \in TokenStrings |-> [n |-> 0, by |-> ""]]
  /\ calls = 0
  /\ sites = SeedSites
  /\ MASTER_API_KEY = "k"
  /\ PoolReady

SpecPending == InitPending /\ [][NextSeq]_vars

\* A store with a site administrator: site 1's user is a verified admin
\* (a row inserted with role 'admin', as tests/conftest.py admin_user), site 2
\* holds an ordinary verified user.
AdminUsers ==
  {User(1, 1, "a", hash_password("p", "s1"), TRUE, "admin"),
   User(2, 2, "a", hash_password("q", "s1"), TRUE, "user")}

InitAdmin == InitWith(AdminUsers)

\* the role-guarded requests
AdminStep(w) ==
  \/ require_role_token(w) \/ require_role_user(w) \/ admin_list_users(w)

NextAdmin ==
  /\ Tick \/ Step("w1") \/ AdminStep("w1")
  /\ UNCHANGED <<calls, sites, MASTER_API_KEY, pool>>

SpecAdmin == InitAdmin /\ [][NextAdmin]_vars

\* The tenant-management endpoints, on a deployment whose MASTER_API_KEY is
\* set or left at its default ''.
InitTenant ==
  /\ users = SeedUsers
  /\ next_user_id = Cardinality(SeedUsers) + 1
  /\ auth_tokens = {}
  /\ email_verification_tokens = {}
  /\ password_reset_tokens = {}
  /\ email_change_requests = {}
  /\ next_token = 1
  /\ now = 0
  /\ pc = [w \in Workers |-> "idle"]
  /\ loc = [w \in Workers |-> Idle]
  /\ consumed = [t \in TokenStrings |-> [n |-> 0, by |-> ""]]
  /\ calls = 0
  /\ sites = SeedSites
  /\ MASTER_API_KEY \in {"", "k"}
  /\ PoolReady

TenantStep(w) ==
  \/ create_site(w) \/ update_site(w) \/ list_sites(w)
  \/ list_users_by_site_id(w) \/ admin_register(w) \/ resend_verification(w)
  \/ Return(w) /\ UNCHANGED <<sites, MASTER_API_KEY>>

NextTenant == TenantStep("w1") /\ UNCHANGED <<calls, pool>>

SpecTenant == InitTenant /\ [][NextTenant]_vars

\* ------------------------------------------ DatabaseManager.delete_user
\* One transaction (get_cursor(commit=True)): four DELETEs by user_id, the
\* DELETE of the user row, then the commit; an exception in any statement
\* rolls the transaction back. loc.deleted holds the token strings the
\* statements of the open transaction have deleted.

\* mutant: every statement is committed as it is executed
uncommitted_autocommit(table, rows) == {t \in table : t.token \notin rows}

\* what the other connections see of a table while the transaction that
\* deleted rows of it is open: the rows are still there
uncommitted(table, rows) == table

\* conn.commit(): the deletes of the transaction take effect together
commit(table, rows) == {t \in table : t.token \notin rows}

\* the token strings of user_id in a table
rows_of_user(table, user_id) ==
  {t.token : t \in {x \in table : x.user_id = user_id}}

\* conn.rollback() after a statement raised
delete_user_rollback(w) ==
  Finish(w, [loc[w] EXCEPT !.deleted = {}], "DatabaseError", 0)

\* DELETE FROM auth_tokens WHERE user_id = %s
delete_user_auth(w) ==
  /\ pc[w] = "idle"
  /\ \E user_id \in UserIds :
       LET l == [Call("delete_user") EXCEPT !.user_id = user_id]
           rows == rows_of_user(auth_tokens, user_id) IN
       \/ /\ auth_tokens' = uncommitted(auth_tokens, rows)
          /\ Goto(w, "delete_user_verification", [l EXCEPT !.deleted = rows])
       \/ /\ Finish(w, l, "DatabaseError", 0)
          /\ UNCHANGED auth_tokens
  /\ UNCHANGED <<users, next_user_id, email_verification_tokens,
                 password_reset_tokens, email_change_requests, next_token,
                 now, consumed>>

\* DELETE FROM email_verification_tokens WHERE user_id = %s
delete_user_verification(w) ==
  /\ pc[w] = "delete_user_verification"
  /\ LET rows == rows_of_user(email_verification_tokens, loc[w].user_id) IN
     \/ /\ email_verification_tokens' =
              uncommitted(email_verification_tokens, rows)
        /\ Goto(w, "delete_user_reset",
                [loc[w] EXCEPT !.deleted = @ \cup rows])
     \/ /\ delete_user_rollback(w)
        /\ UNCHANGED email_verification_tokens
  /\ UNCHANGED <<users, next_user_id, auth_tokens, password_reset_tokens,
                 email_change_requests, next_token, now, consumed>>

\* DELETE FROM password_reset_tokens WHERE user_id = %s
delete_user_reset(w) ==
  /\ pc[w] = "delete_user_reset"
  /\ LET rows == rows_of_user(password_reset_tokens, loc[w].user_id) IN
     \/ /\ password_reset_tokens' = uncommitted(password_reset_tokens, rows)
        /\ Goto(w, "delete_user_change",
                [loc[w] EXCEPT !.deleted = @ \cup rows])
     \/ /\ delete_user_rollback(w)
        /\ UNCHANGED password_reset_tokens
  /\ UNCHANGED <<users, next_user_id, auth_tokens, email_verification_tokens,
                 email_change_requests, next_token, now, consumed>>

\* DELETE FROM email_change_requests WHERE user_id = %s
delete_user_change(w) ==
  /\ pc[w] = "delete_user_change"
  /\ LET rows == rows_of_user(email_change_requests, loc[w].user_id) IN
     \/ /\ email_change_requests' = uncommitted(email_change_requests, rows)
        /\ Goto(w, "delete_user_row",
                [loc[w] EXCEPT !.deleted = @ \cup rows])
     \/ /\ delete_user_rollback(w)
        /\ UNCHANGED email_change_requests
  /\ UNCHANGED <<users, next_user_id, auth_tokens, email_verification_tokens,
                 password_reset_tokens, next_token, now, consumed>>

\* DELETE FROM users WHERE id = %s, return rowcount > 0, commit
delete_user_row(w) ==
  /\ pc[w] = "delete_user_row"
  /\ \/ /\ ~referenced(loc[w].user_id, loc[w].deleted)
        /\ users' = {u \in users : u.id # loc[w].user_id}
        /\ auth_tokens' = commit(auth_tokens, loc[w].deleted)
        /\ email_verification_tokens' =
             commit(email_verification_tokens, loc[w].deleted)
        /\ password_reset_tokens' =
             commit(password_reset_tokens, loc[w].deleted)
        /\ email_change_requests' =
             commit(email_change_requests, loc[w].deleted)
        /\ Finish(w, loc[w], "ok",
                  IF find_user_by_id(loc[w].user_id) # NoUser THEN 1 ELSE 0)
     \/ /\ delete_user_rollback(w)
        /\ UNCHANGED <<users, auth_tokens, email_verification_tokens,
                       password_reset_tokens, email_change_requests>>
  /\ UNCHANGED <<next_user_id, next_token, now, consumed>>

\* Users are removed while sessions and reset tokens are minted and
\* sessions are looked up, by concurrent workers.
DeleteStep(w) ==
  \/ login_find(w) \/ login_token(w)
  \/ reqreset_find(w) \/ reqreset_token(w)
  \/ validate_session(w)
  \/ delete_user_auth(w) \/ delete_user_verification(w)
  \/ delete_user_reset(w) \/ delete_user_change(w) \/ delete_user_row(w)
  \/ Return(w)

NextDelete ==
  /\ \/ Tick /\ UNCHANGED calls
     \/ \E w \in Workers :
          /\ pc[w] = "idle" => calls < MaxCalls
          /\ DeleteStep(w)
          /\ calls' = IF pc[w] = "idle" THEN calls + 1 ELSE calls
  /\ UNCHANGED <<sites, MASTER_API_KEY, pool>>

SpecDelete == Init /\ [][NextDelete]_vars

\* ------------------------------------- DatabaseManager: connection pool
\* db_manager is one object shared by the request threads of the process
\* (app.run). Every db_manager call opens with get_connection. The pool is
\* Ready when _pool_initialized is True, Unavailable when an attempt to make
\* it has failed; Uninitialized lasts only until the attempt the constructor
\* makes.

\* a request thread starts an operation whose first statement is a lookup
store_call(w) ==
  /\ pc[w] = "idle"
  /\ \/ \E site_id \in Sites, email \in Emails :
          Goto(w, "get_connection",
               [Call("request_password_reset") EXCEPT !.site_id = site_id,
                  !.email = email])
     \/ \E token \in TokenStrings :
          Goto(w, "get_connection",
               [Call("validate_auth_token") EXCEPT !.token = token])
  /\ UNCHANGED <<store, now, consumed, pool>>

\* get_connection: if not self._pool_initialized
get_connection(w) ==
  /\ pc[w] = "get_connection"
  /\ IF pool_initialized THEN Goto(w, "getconn", loc[w])
     ELSE Goto(w, "try_initialize_pool", loc[w])
  /\ UNCHANGED <<store, now, consumed, pool>>

\* _try_initialize_pool: if self._pool_initialized: return True
try_initialize_pool(w) ==
  /\ pc[w] = "try_initialize_pool"
  /\ IF pool_initialized THEN Goto(w, "getconn", loc[w])
     ELSE Goto(w, "SimpleConnectionPool", loc[w])
  /\ UNCHANGED <<store, now, consumed, pool>>

\* _try_initialize_pool: the pool is made and stored, or the attempt fails
\* and get_connection raises
SimpleConnectionPool(w) ==
  /\ pc[w] = "SimpleConnectionPool"
  /\ IF reachable
     THEN /\ connection_pool' = w
          /\ pool_initialized' = TRUE
          /\ Goto(w, "getconn", loc[w])
     ELSE /\ connection_pool' = None
          /\ pool_initialized' = FALSE
          /\ Finish(w, loc[w], "StoreUnavailable", 0)
  /\ UNCHANGED <<store, now, consumed, reachable>>

\* get_connection: if not self.connection_pool: raise; getconn(); then the
\* statement of the db_manager call, which raises when the database has gone
getconn(w) ==
  /\ pc[w] = "getconn"
  /\ IF connection_pool = None \/ ~reachable
     THEN Finish(w, loc[w], "StoreUnavailable", 0) /\ UNCHANGED store
     ELSE IF loc[w].op = "validate_auth_token"
     THEN /\ Finish(w, loc[w],
                    IF validate_auth_token(loc[w].token) = 0
                    THEN "Unauthenticated" ELSE "ok",
                    validate_auth_token(loc[w].token))
          /\ UNCHANGED store
     ELSE IF loc[w].user = NoUser
     THEN LET user == find_user_by_email(loc[w].site_id, loc[w].email) IN
          /\ IF user = NoUser THEN Finish(w, loc[w], "ok", 0)
             ELSE CanMint /\ Goto(w, "get_connection",
                                  [loc[w] EXCEPT !.user = user])
          /\ UNCHANGED store
     ELSE LET t == create_password_reset_token(loc[w].site_id,
                                               loc[w].user.id) IN
          /\ CanMint
          /\ password_reset_tokens' = password_reset_tokens \cup {t}
          /\ next_token' = next_token + 1
          /\ \E outcome \in NotifierOutcomes :
               Finish(w, [loc[w] EXCEPT !.notified =
                            notify(find_site_by_id(loc[w].site_id), outcome)],
                      after_notify(outcome), t.token)
          /\ UNCHANGED <<users, next_user_id, auth_tokens,
                         email_verification_tokens, email_change_requests>>
  /\ UNCHANGED <<now, consumed, pool>>

\* the database comes up or goes down
Reach ==
  /\ reachable' = ~reachable
  /\ UNCHANGED <<store, now, pc, loc, consumed, pool_initialized,
                 connection_pool>>

\* The process was started with the database up or down.
InitPool ==
  /\ users = SeedUsers
  /\ next_user_id = Cardinality(SeedUsers) + 1
  /\ auth_tokens = {}
  /\ email_verification_tokens = {}
  /\ password_reset_tokens = {}
  /\ email_change_requests = {}
  /\ next_token = 1
  /\ now = 0
  /\ pc = [w \in Workers |-> "idle"]
  /\ loc = [w \in Workers |-> Idle]
  /\ consumed = [t \in TokenStrings |-> [n |-> 0, by |-> ""]]
  /\ calls = 0
  /\ sites = SeedSites
  /\ MASTER_API_KEY = "k"
  /\ reachable \in BOOLEAN
  /\ pool_initialized = reachable
  /\ connection_pool = IF reachable THEN "init" ELSE None

PoolStep(w) ==
  \/ store_call(w) \/ get_connection(w) \/ try_initialize_pool(w)
  \/ SimpleConnectionPool(w) \/ getconn(w)
  \/ Return(w) /\ UNCHANGED pool

NextPool ==
  /\ \/ Reach /\ UNCHANGED calls
     \/ \E w \in Workers :
          /\ pc[w] = "idle" => calls < MaxCalls
          /\ PoolStep(w)
          /\ calls' = IF pc[w] = "idle" THEN calls + 1 ELSE calls
  /\ UNCHANGED <<sites, MASTER_API_KEY>>

SpecPool == InitPool /\ [][NextPool]_vars

\* ------------------------------------------------------------------ claims
ConsumeOps == {"verify_email", "confirm_email_change", "reset_password"}

\* C1: once a consume has succeeded on a verification or email-change token,
\* the token is in neither table, a check of it answers absent, and every
\* consume or check call that starts afterwards with the same token string
\* ends with InvalidOrExpiredToken.
C1_ConsumedTokenStaysAbsent ==
  /\ \A t \in TokenStrings :
       consumed[t].by \in {"verify_email", "confirm_email_change"} =>
         /\ find_email_verification_token(t) = {}
         /\ find_email_change_request(t) = {}
         /\ check_email_verification_token(t) = 0
  /\ \A w \in Workers :
       (/\ loc[w].stale
        /\ loc[w].op \in {"verify_email", "confirm_email_change",
                          "check_email_verification_token"}) =>
         pc[w] = "done" /\ loc[w].res = "InvalidOrExpiredToken"

\* C1 witness: a verification token and an email-change token have both been
\* consumed, and a second verify_email with the consumed verification token
\* has ended with InvalidOrExpiredToken
C1_Witness ==
  \E w \in Workers, t1, t2 \in TokenStrings :
    /\ consumed[t1].by = "verify_email"
    /\ consumed[t2].by = "confirm_email_change"
    /\ pc[w] = "done" /\ loc[w].op = "verify_email" /\ loc[w].token = t1
    /\ loc[w].stale /\ loc[w].res = "InvalidOrExpiredToken"

\* a worker that is past the mark-used step of reset_password
PastResetConsume(w) ==
  \/ pc[w] \in {"reset_user", "reset_update", "reset_invalidate"}
  \/ /\ pc[w] = "done" /\ loc[w].op = "reset_password"
     /\ loc[w].res # "InvalidOrExpiredToken"

\* past the mark-used step the row is stored with used = TRUE; a reset_password
\* that started on an already consumed token has failed
C2_RowKeptUsed ==
  /\ \A w \in Workers :
       PastResetConsume(w) =>
         \E t \in find_password_reset_token(loc[w].token) : t.used
  /\ \A w \in Workers :
       (loc[w].stale /\ loc[w].op = "reset_password") =>
         pc[w] = "done" /\ loc[w].res = "InvalidOrExpiredToken"

\* a reset_password that starts on an already consumed token changes no user,
\* no session and no reset token
C2_StaleResetChangesNothing ==
  \A w \in Workers :
    (pc[w] = "idle" /\ loc'[w].op = "reset_password" /\ loc'[w].stale) =>
      /\ users' = users
      /\ auth_tokens' = auth_tokens
      /\ password_reset_tokens' = password_reset_tokens

\* a used row leaves the table only when it is past its expiry
C2_UsedRowLeavesOnlyExpired ==
  \A t \in password_reset_tokens :
    t.used => (t \in password_reset_tokens' \/ t.expires_at < now)

\* C2: after a successful consume of a password-reset token its row is still
\* stored with used = TRUE (only the sweep of an expired row removes it), every
\* consume that starts afterwards fails, and such a reset_password leaves the
\* users, the sessions and the reset tokens as they were.
C2_ResetTokenFlaggedNotDeleted ==
  /\ []C2_RowKeptUsed
  /\ [][C2_StaleResetChangesNothing]_vars
  /\ [][C2_UsedRowLeavesOnlyExpired]_vars

\* C2 witness: a second reset_password with an already used token has failed
\* while that token's row is stored with used = TRUE and a session exists
C2_Witness ==
  \E w \in Workers :
    /\ pc[w] = "done" /\ loc[w].op = "reset_password" /\ loc[w].stale
    /\ loc[w].res = "InvalidOrExpiredToken"
    /\ \E t \in find_password_reset_token(loc[w].token) : t.used
    /\ auth_tokens # {}

\* C3: of the consume calls on one token string at most one succeeds.
C3_AtMostOneConsumeSucceeds == \A t \in TokenStrings : consumed[t].n <= 1

\* C4: when change_password or reset_password has returned successfully, no
\* session row that the user held when the call started is stored any more
\* (validate_auth_token rejects its token), and every session another user
\* held when the call started is still stored.
C4_PasswordChangeInvalidatesSessions ==
  \A w \in Workers :
    (/\ pc[w] = "done"
     /\ loc[w].op \in {"change_password", "reset_password"}
     /\ loc[w].res = "ok") =>
      \A t \in loc[w].pre :
        IF t.user_id = loc[w].user_id
        THEN /\ find_auth_token_by_token(t.token) = {}
             /\ validate_auth_token(t.token) = 0
        ELSE t \in auth_tokens

\* C4 witness: change_password has returned successfully for a user who held a
\* session when it started, while another user held one too
C4_Witness ==
  \E w \in Workers :
    /\ pc[w] = "done" /\ loc[w].op = "change_password" /\ loc[w].res = "ok"
    /\ \E t \in loc[w].pre : t.user_id = loc[w].user_id
    /\ \E t \in loc[w].pre : t.user_id # loc[w].user_id

\* C5: no two distinct user rows have the same (site_id, email).
C5_SiteEmailUnique ==
  \A u, v \in users :
    (u.site_id = v.site_id /\ u.email = v.email) => u = v

\* C5 witness: a confirm_email_change whose new address had been registered
\* by somebody else in the meantime was refused by the store
C5_Witness ==
  \E w \in Workers :
    /\ pc[w] = "done" /\ loc[w].op = "confirm_email_change"
    /\ loc[w].res = "IntegrityError"
    /\ \E u \in users : /\ u.id # loc[w].user_id
                        /\ u.site_id = loc[w].user.site_id
                        /\ u.email = loc[w].new_email

\* C6: a user row whose is_verified is true never has it false afterwards.
C6_VerifiedIsIrreversible ==
  [][\A u \in users : \A v \in users' :
       (u.id = v.id /\ u.is_verified) => v.is_verified]_vars

\* the operations that check, validate or consume a token string
TokenOps == {"validate_auth_token", "check_email_verification_token",
             "verify_email", "reset_password", "confirm_email_change"}

\* the rows an operation of TokenOps finds for a token string
RowsOf(op, token) ==
  IF op = "validate_auth_token" THEN find_auth_token_by_token(token)
  ELSE IF op \in {"check_email_verification_token", "verify_email"}
  THEN find_email_verification_token(token)
  ELSE IF op = "reset_password" THEN find_password_reset_token(token)
  ELSE find_email_change_request(token)

\* what an operation of TokenOps answers for a token string that is not stored
AbsentResult(op) ==
  IF op = "validate_auth_token" THEN "Unauthenticated"
  ELSE "InvalidOrExpiredToken"

\* C7: a check / validate / consume call whose token row has expires_at < now
\* ends at once with exactly the outcome of a call whose token string is not
\* stored (same error, nothing returned) and changes no table.
C7_ExpiredLikeAbsent ==
  [][\A w \in Workers :
       (/\ pc[w] = "idle"
        /\ loc'[w].op \in TokenOps
        /\ \A t \in RowsOf(loc'[w].op, loc'[w].token) : t.expires_at < now) =>
         /\ pc'[w] = "done"
         /\ loc'[w].res = AbsentResult(loc'[w].op)
         /\ loc'[w].ret = 0
         /\ store' = store]_vars

\* C7 witness: reset_password has failed on a stored, unused reset token that
\* is past its expiry, while an expired session row is stored as well
C7_Witness ==
  \E w \in Workers :
    /\ pc[w] = "done" /\ loc[w].op = "reset_password"
    /\ loc[w].res = "InvalidOrExpiredToken"
    /\ \E t \in find_password_reset_token(loc[w].token) :
         ~t.used /\ t.expires_at < now
    /\ \E t \in auth_tokens : t.expires_at < now

\* the session insert of login is reached only with a verified row, and that
\* user's stored row is verified
C8_NoTokenStepForUnverified ==
  \A w \in Workers :
    pc[w] = "login_token" =>
      /\ loc[w].user.is_verified
      /\ find_user_by_id(loc[w].user.id).is_verified

\* a login that starts for an unverified stored user ends at once, changes
\* nothing, and fails with EmailNotVerified when the password matches
C8_UnverifiedLoginFails ==
  \A w \in Workers :
    (/\ pc[w] = "idle" /\ loc'[w].op = "login"
     /\ \E u \in users : /\ u.site_id = loc'[w].site_id
                         /\ u.email = loc'[w].email
                         /\ ~u.is_verified) =>
      /\ pc'[w] = "done"
      /\ loc'[w].res # "ok"
      /\ store' = store
      /\ verify_password(loc'[w].password, loc'[w].user.password_hash) =>
           loc'[w].res = "EmailNotVerified"

\* C8: a login for a stored user whose is_verified is false ends at once
\* without success and leaves every table as it was; with the password that
\* matches the stored digest its error is EmailNotVerified.  The step that
\* inserts a session is reached only for a user who is verified.
C8_LoginRequiresVerified ==
  /\ []C8_NoTokenStepForUnverified
  /\ [][C8_UnverifiedLoginFails]_vars

\* C8 witness: a login with the correct password of a registered but not yet
\* verified user has failed with EmailNotVerified
C8_Witness ==
  \E w \in Workers :
    /\ pc[w] = "done" /\ loc[w].op = "login"
    /\ loc[w].res = "EmailNotVerified"
    /\ ~find_user_by_id(loc[w].user.id).is_verified
    /\ verify_password(loc[w].password, loc[w].user.password_hash)
    /\ \E t \in email_verification_tokens : t.user_id = loc[w].user.id

\* register_user returns: the row is stored under (site_id, email), unverified,
\* with a digest that exactly the given password verifies against, and a
\* verification token of that user has been minted
C9_RegisterStores ==
  \A w \in Workers :
    (pc[w] = "register_token" /\ pc'[w] = "done") =>
      /\ loc'[w].res = "ok"
      /\ \E u \in users' :
           /\ u.id = loc'[w].ret
           /\ u = find_user_by_email(loc'[w].site_id, loc'[w].email)
           /\ ~u.is_verified
           /\ \A p \in Passwords :
                verify_password(p, u.password_hash) <=> p = loc'[w].password
      /\ \E t \in email_verification_tokens' \ email_verification_tokens :
           t.user_id = loc'[w].ret /\ t.token = next_token

\* a successful verify_email sets is_verified of the token's user and changes
\* nothing else of any user row
C9_VerifyKeepsCredentials ==
  \A w \in Workers :
    (pc[w] = "verify_update" /\ pc'[w] = "done" /\ loc'[w].res = "ok") =>
      /\ consumed[loc[w].token].by = "verify_email"
      /\ users' = {IF u.id = loc[w].user_id
                   THEN [u EXCEPT !.is_verified = TRUE] ELSE u : u \in users}

\* login on a verified row: the password the digest was made from goes on to
\* the session insert, any other ends with InvalidCredentials and no change
C9_LoginByPassword ==
  \A w \in Workers :
    (pc[w] = "idle" /\ loc'[w].op = "login") =>
      \A u \in users :
        (/\ u = find_user_by_email(loc'[w].site_id, loc'[w].email)
         /\ u.is_verified
         /\ \E salt \in Salts, p \in Passwords :
              u.password_hash = hash_password(p, salt)) =>
          /\ store' = store
          /\ IF u.password_hash \in
                  {hash_password(loc'[w].password, salt) : salt \in Salts}
             THEN pc'[w] = "login_token" /\ loc'[w].user = u
             ELSE /\ pc'[w] = "done"
                  /\ loc'[w].res = "InvalidCredentials"

\* the session insert of login: one new row, of that user, under a token
\* string no stored session has, returned to the caller
C9_LoginInsertsSession ==
  \A w \in Workers :
    (pc[w] = "login_token" /\ pc'[w] # "login_token") =>
      /\ pc'[w] = "done" /\ loc'[w].res = "ok"
      /\ \A t \in auth_tokens : t.token # loc'[w].ret
      /\ \E t \in auth_tokens' :
           /\ auth_tokens' = auth_tokens \cup {t}
           /\ t.token = loc'[w].ret
           /\ t.user_id = loc[w].user.id
           /\ t.site_id = loc[w].site_id
           /\ ~(t.expires_at < now)

\* C9: register_user stores the row with a digest of exactly the given
\* password and mints its verification token; the verify_email that consumes
\* the token only sets is_verified; login on that row then inserts and returns
\* a new session of the user for that password, and for any other password
\* ends with InvalidCredentials and no session.
C9_RegisterVerifyLogin ==
  /\ [][C9_RegisterStores]_vars
  /\ [][C9_VerifyKeepsCredentials]_vars
  /\ [][C9_LoginByPassword]_vars
  /\ [][C9_LoginInsertsSession]_vars

\* C9 witness: a user registered in this run was verified with the token of
\* that registration, and a login with the registered password has returned a
\* session of that user
C9_Witness ==
  \E w \in Workers, t \in TokenStrings :
    /\ pc[w] = "done" /\ loc[w].op = "login" /\ loc[w].res = "ok"
    /\ \A s \in SeedUsers : s.id # loc[w].user.id
    /\ consumed[t].by = "verify_email"
    /\ validate_auth_token(loc[w].ret) = loc[w].user.id

C11_ProvisionWithoutPassword ==
  \A w \in Workers :
    (/\ pc[w] = "done" /\ loc[w].op = "register_user"
     /\ loc[w].password = None
     /\ loc[w].res # "DuplicateCredential") =>
      /\ loc[w].res = "ok"
      /\ \E u \in users : u.id = loc[w].ret /\ u.password_hash = NullHash
      /\ \E t \in email_verification_tokens : t.user_id = loc[w].ret

C13_RacingRegisterDuplicateError ==
  \A w \in Workers :
    (/\ pc[w] = "done" /\ loc[w].op = "register_user"
     /\ loc[w].password # None
     /\ loc[w].res # "ok") =>
      loc[w].res = "DuplicateCredential"

\* a register_user call for a (site_id, email) that is stored ends at once with
\* the duplicate error and changes no table; one whose (site_id, email) is not
\* stored goes on to the insert, whatever other sites hold that email
C14_RegisterChecksSiteAndEmail ==
  \A w \in Workers :
    (pc[w] = "idle" /\ loc'[w].op = "register_user") =>
      IF \E u \in users : /\ u.site_id = loc'[w].site_id
                          /\ u.email = loc'[w].email
      THEN /\ pc'[w] = "done"
           /\ loc'[w].res = "DuplicateCredential"
           /\ store' = store
      ELSE loc'[w].password # None => pc'[w] = "register_create"

\* the insert and the token step of such a call succeed: one new row under the
\* call's (site_id, email), then one new verification token of that user
C14_RegisterInserts ==
  \A w \in Workers :
    /\ (pc[w] = "register_create" /\ pc'[w] # "register_create") =>
         /\ pc'[w] = "register_token"
         /\ \E u \in users' \ users :
              /\ users' = users \cup {u}
              /\ u.site_id = loc[w].site_id /\ u.email = loc[w].email
              /\ \A v \in users : v.id # u.id
    /\ (pc[w] = "register_token" /\ pc'[w] # "register_token") =>
         /\ pc'[w] = "done" /\ loc'[w].res = "ok"
         /\ users' = users

\* C14: registering an email is refused exactly when the same site already
\* holds it: under another site it succeeds, a second time under the same site
\* it ends with the duplicate error, no new user and no new verification token.
C14_EmailUniquePerSite ==
  /\ [][C14_RegisterChecksSiteAndEmail]_vars
  /\ [][C14_RegisterInserts]_vars

\* C14 witness: an email held under one site was registered under the other
\* site in this run, and a second registration of it there was refused
C14_Witness ==
  \E w \in Workers :
    /\ pc[w] = "done" /\ loc[w].op = "register_user"
    /\ loc[w].res = "DuplicateCredential"
    /\ \E u, v \in users :
         /\ u.site_id = loc[w].site_id /\ u.email = loc[w].email
         /\ \A s \in SeedUsers : s.id # u.id
         /\ v.site_id # u.site_id /\ v.email = u.email

\* C15: the session guard changes no table; it admits the request, binding
\* the row's user_id, exactly when the bearer token is a stored session whose
\* expires_at is not earlier than the current time, and answers
\* Unauthenticated otherwise.  (Admission is decided by the stored row and the
\* clock alone, so a session stays admitted until it expires or is deleted.)
C15_GuardAdmitsLiveSessions ==
  [][\A w \in Workers :
       (pc[w] = "idle" /\ loc'[w].op = "validate_auth_token") =>
         /\ pc'[w] = "done"
         /\ store' = store
         /\ IF \E t \in auth_tokens :
                  t.token = loc'[w].token /\ t.expires_at >= now
            THEN /\ loc'[w].res = "ok"
                 /\ \E t \in auth_tokens : /\ t.token = loc'[w].token
                                           /\ t.user_id = loc'[w].ret
            ELSE /\ loc'[w].res = "Unauthenticated"
                 /\ loc'[w].ret = 0]_vars

\* C15 witness: the guard has admitted a session in the last instant of its
\* life (expires_at = now) while an expired session is stored too
C15_Witness ==
  \E w \in Workers :
    /\ pc[w] = "done" /\ loc[w].op = "validate_auth_token"
    /\ loc[w].res = "ok"
    /\ \E t \in find_auth_token_by_token(loc[w].token) :
         t.expires_at = now /\ t.user_id = loc[w].ret
    /\ \E t \in auth_tokens : t.expires_at < now

\* the operations behind the role guard
RoleOps == {"require_role", "admin_list_users"}

\* the first step of the role guard: a token that is not a stored, unexpired
\* session is answered Unauthenticated; otherwise the session's user_id is bound
C16_GuardChecksSession ==
  \A w \in Workers :
    (pc[w] = "idle" /\ loc'[w].op \in RoleOps) =>
      /\ store' = store
      /\ IF \E t \in auth_tokens :
               t.token = loc'[w].token /\ t.expires_at >= now
         THEN /\ pc'[w] = "require_role_user"
              /\ \E t \in auth_tokens : /\ t.token = loc'[w].token
                                        /\ t.user_id = loc'[w].user_id
         ELSE pc'[w] = "done" /\ loc'[w].res = "Unauthenticated"

\* the second step: no such user is Unauthenticated, a user whose stored role
\* differs from the required one is Forbidden, and only a user whose stored
\* role equals it reaches the handler
C16_GuardChecksRole ==
  \A w \in Workers :
    (pc[w] = "require_role_user" /\ pc'[w] # "require_role_user") =>
      /\ store' = store
      /\ IF \A u \in users : u.id # loc[w].user_id
         THEN pc'[w] = "done" /\ loc'[w].res = "Unauthenticated"
         ELSE \E u \in users :
                /\ u.id = loc[w].user_id
                /\ IF u.role # loc[w].role
                   THEN pc'[w] = "done" /\ loc'[w].res = "Forbidden"
                   ELSE /\ loc'[w].user = u
                        /\ \/ pc'[w] = "admin_list_users"
                           \/ pc'[w] = "done" /\ loc'[w].res = "ok"

\* the handler runs, or has run, only for a user of the required role
C16_HandlerHasRole ==
  \A w \in Workers :
    (\/ pc[w] = "admin_list_users"
     \/ pc[w] = "done" /\ loc[w].op \in RoleOps /\ loc[w].res = "ok") =>
      /\ loc[w].user.role = loc[w].role
      /\ loc[w].user.id = loc[w].user_id
      /\ \E u \in users : u.id = loc[w].user_id /\ u.role = loc[w].role

C17_ListingStep ==
  \A w \in Workers :
    (pc[w] = "admin_list_users" /\ pc'[w] # "admin_list_users") =>
      /\ pc'[w] = "done" /\ loc'[w].res = "ok"
      /\ store' = store
      /\ loc'[w].listed = {u \in users : u.site_id = loc[w].user.site_id}

\* a returned listing holds rows of the caller's site only, and the caller is
\* an admin of that site
C17_ListedAreOfOwnSite ==
  \A w \in Workers :
    (pc[w] = "done" /\ loc[w].op = "admin_list_users") =>
      /\ \A u \in loc[w].listed : u.site_id = loc[w].user.site_id
      /\ loc[w].listed # {} => loc[w].user.role = "admin"

\* C17: the admin user listing returns exactly the stored users whose site_id
\* is the authenticated admin's site_id, and no user of another site.
C17_ListingScopedToOwnSite ==
  /\ []C17_ListedAreOfOwnSite
  /\ [][C17_ListingStep]_vars

\* C17 witness: an admin was listed two users of the own site while another
\* site holds a user too
C17_Witness ==
  \E w \in Workers :
    /\ pc[w] = "done" /\ loc[w].op = "admin_list_users"
    /\ loc[w].res = "ok"
    /\ Cardinality(loc[w].listed) >= 2
    /\ \E u \in users : u.site_id # loc[w].user.site_id

\* the tenant-management operations
TenantOps == {"create_site", "update_site", "list_sites",
              "list_users_by_site_id", "admin_register", "resend_verification"}

\* C18: a tenant-management request whose operator secret is missing or is
\* not the configured master secret, or that arrives while no master secret
\* is configured, is rejected by the guard and changes no table.
C18_TenantOpsNeedMasterKey ==
  [][\A w \in Workers :
       (/\ pc[w] = "idle" /\ loc'[w].op \in TenantOps
        /\ ~(MASTER_API_KEY # "" /\ loc'[w].api_key = MASTER_API_KEY)) =>
         /\ loc'[w].res \in {"Unauthenticated", "NotConfigured"}
         /\ loc'[w].listed = {}
         /\ sites' = sites
         /\ store' = store]_vars

\* a check changes no table; for a stored, unexpired verification token it
\* returns the owning user id and leaves the token consumable, for any other
\* token string it answers InvalidOrExpiredToken
C19_CheckStep ==
  \A w \in Workers :
    (pc[w] = "idle" /\ loc'[w].op = "check_email_verification_token") =>
      /\ pc'[w] = "done"
      /\ store' = store
      /\ IF \E t \in email_verification_tokens :
               t.token = loc'[w].token /\ t.expires_at >= now
         THEN /\ loc'[w].res = "ok"
              /\ \E t \in email_verification_tokens' :
                   /\ t.token = loc'[w].token
                   /\ t.user_id = loc'[w].ret
                   /\ t.expires_at >= now'
         ELSE loc'[w].res = "InvalidOrExpiredToken" /\ loc'[w].ret = 0

\* a consume that starts on a stored, unexpired verification token passes its
\* test and its delete step counts as the token's successful consume
C19_ConsumeOfLiveToken ==
  \A w \in Workers :
    /\ (pc[w] = "idle" /\ loc'[w].op = "verify_email") =>
         ((\E t \in email_verification_tokens :
              t.token = loc'[w].token /\ t.expires_at >= now)
            <=> pc'[w] = "verify_delete")
    /\ (pc[w] = "verify_delete" /\ pc'[w] # "verify_delete") =>
         /\ pc'[w] = "verify_user"
         /\ consumed'[loc[w].token].n = consumed[loc[w].token].n + 1

\* C19: check_email_verification_token never changes the store; for a valid
\* token it returns the owning user id, and a consume of the token that
\* starts afterwards, before expiry, still succeeds.
C19_CheckIsNonDestructive ==
  /\ [][C19_CheckStep]_vars
  /\ [][C19_ConsumeOfLiveToken]_vars

\* C19 witness: a check has returned the owner of a verification token that
\* is still stored, unexpired and unconsumed
C19_Witness ==
  \E w \in Workers :
    /\ pc[w] = "done" /\ loc[w].op = "check_email_verification_token"
    /\ loc[w].res = "ok"
    /\ consumed[loc[w].token].n = 0
    /\ \E t \in find_email_verification_token(loc[w].token) :
         t.user_id = loc[w].ret /\ t.expires_at >= now

\* C20: logout deletes the session row with the given token string and no
\* other row of any table; it returns true exactly when such a row was
\* stored, so a logout repeated with the same token returns false.
C20_LogoutDeletesOneSession ==
  [][\A w \in Workers :
       (pc[w] = "idle" /\ loc'[w].op = "logout") =>
         /\ pc'[w] = "done"
         /\ auth_tokens' = {t \in auth_tokens : t.token # loc'[w].token}
         /\ loc'[w].res = IF \E t \in auth_tokens : t.token = loc'[w].token
                          THEN "ok" ELSE "TokenNotFound"
         /\ UNCHANGED <<users, next_user_id, email_verification_tokens,
                        password_reset_tokens, email_change_requests,
                        next_token>>]_vars

\* C20 witness: a logout has returned true while another session is still
\* stored
C20_Witness ==
  \E w \in Workers :
    /\ pc[w] = "done" /\ loc[w].op = "logout" /\ loc[w].res = "ok"
    /\ find_auth_token_by_token(loc[w].token) = {}
    /\ \E t \in auth_tokens : t.token # loc[w].token

\* C21: the session insert of a successful login adds exactly one row, a
\* session of the user under a new token string, and removes or changes no
\* stored session: every session the user held stays stored as it was.
C21_LoginAddsOneSession ==
  [][\A w \in Workers :
       (pc[w] = "login_token" /\ pc'[w] # "login_token") =>
         /\ loc'[w].res = "ok"
         /\ auth_tokens \subseteq auth_tokens'
         /\ Cardinality(auth_tokens') = Cardinality(auth_tokens) + 1
         /\ \A t \in auth_tokens' \ auth_tokens :
              /\ t.user_id = loc[w].user.id
              /\ t.token = loc'[w].ret
              /\ \A x \in auth_tokens : x.token # t.token
         /\ UNCHANGED <<users, email_verification_tokens,
                        password_reset_tokens, email_change_requests>>]_vars

\* C21 witness: after a login the guard admits two different sessions of the
\* same user
C21_Witness ==
  \E w \in Workers :
    /\ pc[w] = "done" /\ loc[w].op = "login" /\ loc[w].res = "ok"
    /\ \E t1, t2 \in TokenStrings :
         /\ t1 # t2
         /\ validate_auth_token(t1) = loc[w].user.id
         /\ validate_auth_token(t2) = loc[w].user.id

\* a request_password_reset for a (site_id, email) without a user ends at
\* once: no token, no notifier call, no table changed
C22_AbsentUserNoEffect ==
  \A w \in Workers :
    (/\ pc[w] = "idle" /\ loc'[w].op = "request_password_reset"
     /\ \A u \in users : ~(u.site_id = loc'[w].site_id
                            /\ u.email = loc'[w].email)) =>
      /\ pc'[w] = "done"
      /\ store' = store
      /\ loc'[w].notified = ""
      /\ loc'[w].ret = 0

\* every finished request_password_reset, for a stored user or not, is
\* answered with the same status and message
C22_SameResponse ==
  \A w \in Workers :
    (pc[w] = "done" /\ loc[w].op = "request_password_reset") =>
      request_password_reset_response(loc[w].res, loc[w].ret) =
        [status |-> 200,
         message |-> "If the email exists, a password reset link has been sent"]

\* C22: request_password_reset for a (site_id, email) with no user creates no
\* token, calls no notifier and changes no table, and the response the caller
\* sees is the one given for an existing account.
C22_ResetRequestHidesExistence ==
  /\ []C22_SameResponse
  /\ [][C22_AbsentUserNoEffect]_vars

\* C22 witness: a request for an address without an account has been
\* answered while a reset token minted for an existing account is stored
C22_Witness ==
  \E w \in Workers :
    /\ pc[w] = "done" /\ loc[w].op = "request_password_reset"
    /\ loc[w].user = NoUser /\ loc[w].ret = 0
    /\ find_user_by_email(loc[w].site_id, loc[w].email) = NoUser
    /\ password_reset_tokens # {}

\* the operations that end with a best-effort notification
NotifyingOps == {"register_user", "request_password_reset",
                 "request_email_change"}

\* the step that mints the token and calls the notifier ends the operation
\* with success and the token row stored, whatever the notifier did
C23_TokenStepSucceeds ==
  \A w \in Workers :
    (/\ pc[w] \in {"register_token", "reqreset_token", "reqchange_token"}
     /\ pc'[w] # pc[w]) =>
      /\ pc'[w] = "done" /\ loc'[w].res = "ok"
      /\ loc'[w].notified \in NotifierOutcomes
      /\ users' = users
      /\ \E t \in (email_verification_tokens' \cup password_reset_tokens'
                    \cup email_change_requests') :
           /\ t.token = next_token
           /\ t.user_id = IF loc[w].op = "request_email_change"
                          THEN loc[w].user_id ELSE loc[w].user.id

\* a finished operation whose notifier failed or raised has succeeded, and
\* the user row a register created is stored
C23_FailedNotifierStillOk ==
  \A w \in Workers :
    (/\ pc[w] = "done" /\ loc[w].op \in NotifyingOps
     /\ loc[w].notified \in {"failed", "raised"}) =>
      /\ loc[w].res = "ok"
      /\ loc[w].op = "register_user" =>
           \E u \in users : u.id = loc[w].ret /\ u.email = loc[w].email

\* C23: register, request_password_reset and request_email_change return
\* success with their user row / token row stored whether the notifier
\* succeeds, reports failure or raises.
C23_NotifierNeverFailsOperation ==
  /\ []C23_FailedNotifierStillOk
  /\ [][C23_TokenStepSucceeds]_vars

\* C23 witness: a register_user whose notifier raised has returned its user,
\* stored together with the verification token
C23_Witness ==
  \E w \in Workers :
    /\ pc[w] = "done" /\ loc[w].op = "register_user"
    /\ loc[w].notified = "raised" /\ loc[w].res = "ok"
    /\ \E u \in users : u.id = loc[w].ret
    /\ \E t \in email_verification_tokens : t.user_id = loc[w].ret

\* the in-use test of request_email_change: a user of the requester's site
\* holding new_email ends the operation with EmailInUse, nothing written and
\* nothing sent; with no such user (the email being free, or held only in
\* another site) the operation goes on to mint its token
C24_InUseStep ==
  \A w \in Workers :
    (pc[w] = "reqchange_email" /\ pc'[w] # pc[w]) =>
      LET site_id == find_user_by_id(loc[w].user_id).site_id
          taken == \E u \in users : /\ u.site_id = site_id
                                     /\ u.email = loc[w].new_email IN
      /\ taken =>
           /\ pc'[w] = "done" /\ loc'[w].res = "EmailInUse"
           /\ loc'[w].notified = ""
           /\ email_change_requests' = email_change_requests
           /\ next_token' = next_token
           /\ users' = users
      /\ ~taken => pc'[w] = "reqchange_token"

\* a request_email_change that ended with EmailInUse left no request and no
\* notification of its own
C24_EmailInUseSendsNothing ==
  \A w \in Workers :
    (/\ pc[w] = "done" /\ loc[w].op = "request_email_change"
     /\ loc[w].res = "EmailInUse") =>
      /\ loc[w].notified = ""
      /\ loc[w].ret = 0

\* C24: request_email_change fails with EmailInUse when (site_id of the
\* user, new_email) belongs to another user, creating no EmailChangeRequest
\* and sending nothing; an email held only in a different site does not
\* make it fail.
C24_EmailInUsePerSite ==
  /\ []C24_EmailInUseSendsNothing
  /\ [][C24_InUseStep]_vars

\* C24 witness: a request refused because another user of the same site
\* holds new_email, while the requester's own email is held in another site
C24_Witness ==
  \E w \in Workers :
    /\ pc[w] = "done" /\ loc[w].op = "request_email_change"
    /\ loc[w].res = "EmailInUse"
    /\ \E u \in users : /\ u.id # loc[w].user_id
                         /\ u.site_id = loc[w].user.site_id
                         /\ u.email = loc[w].new_email
    /\ \E u \in users : /\ u.site_id # loc[w].user.site_id
                         /\ u.email = loc[w].user.email

\* request_email_change stores a request for (user_id, new_email)
C25_RequestStores ==
  \A w \in Workers :
    (pc[w] = "reqchange_token" /\ pc'[w] # pc[w]) =>
      \E t \in email_change_requests' :
        /\ t.token = loc'[w].ret
        /\ t.user_id = loc[w].user_id
        /\ t.new_email = loc[w].new_email

\* confirm_email_change takes user_id and new_email from the stored request
C25_ConfirmReadsRequest ==
  \A w \in Workers :
    (pc[w] = "idle" /\ pc'[w] = "confirm_delete") =>
      \E t \in email_change_requests :
        /\ t.token = loc'[w].token
        /\ t.user_id = loc'[w].user_id
        /\ t.new_email = loc'[w].new_email

\* the successful update writes new_email and nothing else of the row
C25_ConfirmWrites ==
  \A w \in Workers :
    (/\ pc[w] = "confirm_update" /\ pc'[w] = "done"
     /\ loc'[w].res = "ok") =>
      \E old \in users :
        LET new == [old EXCEPT !.email = loc[w].new_email] IN
        /\ old.id = loc[w].user_id
        /\ users' = (users \ {old}) \cup {new}
        /\ \E u \in users' :
             /\ u.id = old.id /\ u.site_id = old.site_id
             /\ u.email = loc[w].new_email
             /\ u.password_hash = old.password_hash
             /\ u.is_verified = old.is_verified /\ u.role = old.role
             /\ \A v \in users' :
                  (v.site_id = old.site_id /\ v.email = loc[w].new_email)
                    => v = u
        /\ old.email # loc[w].new_email =>
             ~\E v \in users' : /\ v.id = old.id /\ v.email = old.email

\* C25: after request_email_change and a successful confirm_email_change
\* with the minted token the stored email is new_email (the user is found
\* under (site_id, new_email), no longer under the old email) and id,
\* site_id, password_hash, is_verified and role are unchanged.
C25_ConfirmedEmailChange ==
  /\ [][C25_RequestStores]_vars
  /\ [][C25_ConfirmReadsRequest]_vars
  /\ [][C25_ConfirmWrites]_vars

\* C25 witness: a confirmed change after which a seeded user is found under
\* the new email only
C25_Witness ==
  \E w \in Workers :
    /\ pc[w] = "done" /\ loc[w].op = "confirm_email_change"
    /\ loc[w].res = "ok"
    /\ \E s \in SeedUsers :
         /\ s.id = loc[w].user_id /\ s.email # loc[w].new_email
         /\ find_user_by_email(s.site_id, loc[w].new_email) =
              [s EXCEPT !.email = loc[w].new_email]
         /\ find_user_by_email(s.site_id, s.email) = NoUser

\* C26: change_password with an old_password that does not match the stored
\* hash fails with IncorrectPassword, and password_hash and every session of
\* the user stay as they were.
C26_WrongOldPassword ==
  [][\A w \in Workers :
      (/\ pc[w] = "idle" /\ pc'[w] # pc[w]
       /\ loc'[w].op = "change_password"
       /\ \E u \in users : /\ u.id = loc'[w].user_id
                            /\ u.password_hash # NullHash
                            /\ u.password_hash.pw # loc'[w].password) =>
        /\ pc'[w] = "done" /\ loc'[w].res = "IncorrectPassword"
        /\ users' = users
        /\ auth_tokens' = auth_tokens]_vars

\* C26 witness: a refused change_password of a user who holds a session and
\* whose stored password still verifies
C26_Witness ==
  \E w \in Workers :
    /\ pc[w] = "done" /\ loc[w].op = "change_password"
    /\ loc[w].res = "IncorrectPassword"
    /\ \E t \in auth_tokens : t.user_id = loc[w].user_id
    /\ \E u \in users : /\ u.id = loc[w].user_id
                         /\ u.password_hash.pw # loc[w].password

\* the four token tables, in the order the sweep visits them
Tables == <<auth_tokens, email_verification_tokens, password_reset_tokens,
            email_change_requests>>
TablesNext == <<auth_tokens', email_verification_tokens',
                password_reset_tokens', email_change_requests'>>

\* the table a sweep standing at pc handles in its next step
SweepTable(p) ==
  CASE p = "cleanup_verification" -> 2
    [] p = "cleanup_reset" -> 3
    [] p = "cleanup_change" -> 4
    [] OTHER -> 1

\* a step of a sweep started at current_time removes from its table exactly
\* the rows with expires_at < current_time, used or not, and touches no
\* other table
C27_SweepStepExact ==
  \A w \in Workers :
    (/\ pc'[w] # pc[w]
     /\ loc'[w].op = "cleanup_expired_tokens"
     /\ pc[w] \in {"idle", "cleanup_verification", "cleanup_reset",
                    "cleanup_change"}) =>
      LET k == SweepTable(pc[w])
          current_time == loc'[w].current_time IN
      /\ pc[w] = "idle" => current_time = now
      /\ TablesNext[k] \subseteq Tables[k]
      /\ \A t \in Tables[k] :
           t \in TablesNext[k] <=> t.expires_at >= current_time
      /\ \A i \in 1..4 : i # k => TablesNext[i] = Tables[i]
      /\ users' = users

\* once a sweep started at current_time has returned no table holds a row
\* with expires_at < current_time: a second sweep with the same time, run
\* after it or alongside it, finds nothing to remove
C27_SweptClean ==
  \A w \in Workers :
    (pc[w] = "done" /\ loc[w].op = "cleanup_expired_tokens") =>
      \A i \in 1..4 : \A t \in Tables[i] :
        t.expires_at >= loc[w].current_time

\* deleting twice with the same time is deleting once
C27_Idempotent ==
  \A i \in 1..4 : \A current_time \in 0..MaxTime :
    delete_expired(delete_expired(Tables[i], current_time), current_time)
      = delete_expired(Tables[i], current_time)

\* C27: the sweep removes, for each of the four token kinds, exactly the
\* records with expires_at < now and none with expires_at >= now, whatever
\* the used flag; a second sweep with the same now, or a concurrent one,
\* removes nothing more and ends in the same store.
C27_SweepExactIdempotent ==
  /\ []C27_SweptClean
  /\ []C27_Idempotent
  /\ [][C27_SweepStepExact]_vars

\* C27 witness: two sweeps started at the same time have both returned, and
\* a token that was minted and never consumed is in no table
C27_Witness ==
  /\ \A w \in Workers :
       /\ pc[w] = "done" /\ loc[w].op = "cleanup_expired_tokens"
       /\ loc[w].current_time = now
  /\ \E k \in TokenStrings :
       /\ k < next_token
       /\ consumed[k].n = 0
       /\ \A i \in 1..4 : \A t \in Tables[i] : t.token # k

\* a row that a check / consume / validate made now would accept is kept by
\* a sweep made now; expires_at = now is accepted and kept
C28_SweepKeepsAccepted ==
  \A i \in 1..4 : \A t \in Tables[i] :
    ~expired(t) => t \in delete_expired(Tables[i], now)

\* logout answers as it would had a sweep run just before it
C28_LogoutSameAfterSweep ==
  \A w \in Workers :
    (/\ pc[w] = "idle" /\ pc'[w] = "done" /\ loc'[w].op = "logout") =>
      loc'[w].res =
        IF \E t \in delete_expired(auth_tokens, now) :
             t.token = loc'[w].token
        THEN "ok" ELSE "TokenNotFound"

DeleteTable(p) ==
  CASE p = "delete_user_verification" -> 2
    [] p = "delete_user_reset" -> 3
    [] p = "delete_user_change" -> 4
    [] OTHER -> 1

\* a step of delete_user that is not its commit changes nothing that another
\* connection can read, whether the statement succeeded or raised; a
\* statement that succeeded has deleted every row of the user in its table
C29_NothingBeforeCommit ==
  \A w \in Workers :
    (/\ pc'[w] # pc[w] /\ loc'[w].op = "delete_user"
     /\ ~(pc'[w] = "done" /\ loc'[w].res = "ok")) =>
      /\ users' = users
      /\ \A i \in 1..4 : TablesNext[i] = Tables[i]
      /\ pc'[w] = "done" => loc'[w].res = "DatabaseError"
      /\ pc'[w] # "done" =>
           loc'[w].deleted = loc[w].deleted \cup
             rows_of_user(Tables[DeleteTable(pc[w])], loc'[w].user_id)

\* the commit removes the user row and every token row the transaction
\* deleted in the same step
C29_CommitRemovesTogether ==
  \A w \in Workers :
    (/\ pc[w] = "delete_user_row" /\ pc'[w] = "done"
     /\ loc'[w].res = "ok") =>
      /\ users' = {u \in users : u.id # loc[w].user_id}
      /\ \A i \in 1..4 :
           TablesNext[i] = {t \in Tables[i] : t.token \notin loc[w].deleted}

\* C29: delete_user is atomic: the user row and the user's tokens of the
\* four kinds are removed together, or, when a statement of the block
\* fails, none is; no other process sees only some of the rows gone.
C29_DeleteUserAtomic ==
  /\ [][C29_NothingBeforeCommit]_vars
  /\ [][C29_CommitRemovesTogether]_vars

\* C29 witness: a delete_user has committed; the user and the tokens it
\* deleted are gone, while the other worker was in the middle of an
\* operation of its own
C29_Witness ==
  \E w \in Workers :
    /\ pc[w] = "done" /\ loc[w].op = "delete_user"
    /\ loc[w].res = "ok" /\ loc[w].ret = 1
    /\ loc[w].deleted # {}
    /\ find_user_by_id(loc[w].user_id) = NoUser
    /\ \A i \in 1..4 : \A t \in Tables[i] : t.token \notin loc[w].deleted
    /\ \E v \in Workers : v # w /\ pc[v] \notin {"idle", "done"}

\* the pool is Ready
Ready == pool_initialized /\ connection_pool # None

\* no operation returns a result, found or absent, from a step taken while
\* the pool is not Ready or the database is unreachable: it raises
C30_UnreachableRaises ==
  \A w \in Workers :
    (/\ pc[w] \in {"SimpleConnectionPool", "getconn"}
     /\ pc'[w] = "done"
     /\ ~reachable \/ connection_pool = None) =>
      loc'[w].res = "StoreUnavailable"

\* an operation that finds the pool not initialised attempts to make it
C30_RetriesInitialisation ==
  \A w \in Workers :
    /\ (pc[w] = "get_connection" /\ pc'[w] # pc[w] /\ ~pool_initialized)
         => pc'[w] = "try_initialize_pool"
    /\ (pc[w] = "try_initialize_pool" /\ pc'[w] # pc[w]
         /\ ~pool_initialized) => pc'[w] = "SimpleConnectionPool"
    /\ (pc[w] = "SimpleConnectionPool" /\ pc'[w] # pc[w] /\ reachable
         /\ ~Ready) => Ready'

\* a Ready pool stays the pool
C30_ReadyNeverReinitialised ==
  Ready => /\ connection_pool' = connection_pool
           /\ pool_initialized' = pool_initialized

\* C30: while the pool is not Ready every store-backed operation ends in a
\* store failure that reaches the caller, never in a found / absent result;
\* each later operation attempts the initialisation again; once Ready the
\* pool is never initialised again. Violated: two requests that both found
\* the pool uninitialised both make a pool, the second after the first has
\* made it Ready.
C30_PoolStateMachine ==
  /\ [][C30_UnreachableRaises]_vars
  /\ [][C30_RetriesInitialisation]_vars
  /\ [][C30_ReadyNeverReinitialised]_vars

\* the first two parts of C30 on their own
C30_RaisesAndRetries ==
  /\ [][C30_UnreachableRaises]_vars
  /\ [][C30_RetriesInitialisation]_vars

\* C31: a successful verify_email returns the verified user together with a
\* redirect URL, the site's verification_redirect_url when set and its
\* frontend_url otherwise. Violated: AuthService.verify_email returns the
\* User that update_user gives back; it never reads the site and its result
\* has no redirect_url (loc.redirect_url stays None).
C31_VerifyReturnsRedirectUrl ==
  \A w \in Workers :
    (/\ pc[w] = "done" /\ loc[w].op = "verify_email"
     /\ loc[w].res = "ok") =>
      /\ find_user_by_id(loc[w].ret).is_verified
      /\ loc[w].redirect_url =
           get_verification_redirect_url(
             find_site_by_id(find_user_by_id(loc[w].ret).site_id))

\* C32: once change_password or reset_password for a user has returned, no
\* valid session of that user exists that a login granted after verifying
\* the password against the old hash, also when that login ran
\* concurrently. Violated: the login reads the user and verifies the old
\* password before the update, and inserts its session after
\* invalidate_user_tokens has run.
C32_NoSessionFromOldPassword ==
  \A w, v \in Workers :
    (/\ pc[w] = "done" /\ loc[w].res = "ok"
     /\ loc[w].op \in {"change_password", "reset_password"}
     /\ pc[v] = "done" /\ loc[v].res = "ok" /\ loc[v].op = "login"
     /\ loc[v].user.id = loc[w].user_id
     /\ loc[v].user.password_hash # loc[w].user.password_hash) =>
      validate_auth_token(loc[v].ret) = 0

\* the stored row of user id keeps field f over the step
KeepsHash(id) ==
  \A u \in users, x \in users' :
    (u.id = id /\ x.id = id) => x.password_hash = u.password_hash
KeepsEmail(id) ==
  \A u \in users, x \in users' :
    (u.id = id /\ x.id = id) => x.email = u.email

\* C33: no lost update between operations on the same user: a stored new
\* password_hash (change_password, reset_password) or new email
\* (confirm_email_change) is not undone by the whole-row write of another
\* operation that read the user earlier; the write of verify_email and of
\* confirm_email_change leaves the stored password_hash, the write of
\* verify_email and of the password changes leaves the stored email.
\* Violated: update_user writes every column of the copy read earlier.
C33_NoLostUpdate ==
  [][\A w \in Workers :
       pc'[w] # pc[w] =>
         /\ pc[w] \in {"verify_update", "confirm_update"}
              => KeepsHash(loc[w].user.id)
         /\ pc[w] \in {"verify_update", "change_update", "reset_update"}
              => KeepsEmail(loc[w].user.id)]_vars

\* the token of a consume operation is stored and not flagged used
StillStored(op, token) ==
  CASE op = "verify_email" -> find_email_verification_token(token) # {}
    [] op = "confirm_email_change" -> find_email_change_request(token) # {}
    [] OTHER -> \E t \in find_password_reset_token(token) : ~t.used

\* C34: consumption and effect go together: the token of verify_email,
\* confirm_email_change or reset_password is removed (flagged used) iff the
\* operation had its effect on the user; when the operation fails after the
\* token lookup (user missing, store conflict on the update) the token is
\* still usable. Violated: the token is consumed in its own committed
\* transaction before the user is read and written.
C34_ConsumedIffEffect ==
  \A w \in Workers :
    (pc[w] = "done" /\ loc[w].op \in ConsumeOps) =>
      /\ loc[w].res = "ok" => ~StillStored(loc[w].op, loc[w].token)
      /\ loc[w].res \in {"UserNotFound", "IntegrityError"}
           => StillStored(loc[w].op, loc[w].token)

\* a row that is verified after a step was verified before it, unless the
\* step is the update of a verify_email for that user
C35_VerifiedOnlyByVerifyEmail ==
  \A x \in users' :
    x.is_verified =>
      \/ \E u \in users : u.id = x.id /\ u.is_verified
      \/ \E w \in Workers :
           /\ pc[w] = "verify_update" /\ pc'[w] = "done"
           /\ loc'[w].op = "verify_email" /\ loc'[w].res = "ok"
           /\ loc[w].user_id = x.id

\* a session is inserted only for a user whose stored row is verified
C35_SessionOnlyForVerified ==
  \A t \in auth_tokens' \ auth_tokens :
    \E u \in users : u.id = t.user_id /\ u.is_verified

\* C35: is_verified becomes true only through a successful verify_email;
\* register, reset_password, change_password and confirm_email_change never
\* set it, so a user who has not consumed a verification token obtains no
\* session by any sequence of them.
C35_VerificationOnlyByToken ==
  /\ [][C35_VerifiedOnlyByVerifyEmail]_vars
  /\ [][C35_SessionOnlyForVerified]_vars

\* C35 witness: an unverified user whose password was replaced through a
\* reset token logs in with the new password and gets EmailNotVerified
C35_Witness ==
  \E w \in Workers :
    /\ pc[w] = "done" /\ loc[w].op = "login"
    /\ loc[w].res = "EmailNotVerified"
    /\ \E t \in password_reset_tokens :
         t.used /\ t.user_id = loc[w].user.id
    /\ \E u \in users :
         /\ u.id = loc[w].user.id /\ ~u.is_verified
         /\ verify_password(loc[w].password, u.password_hash)

\* every stored token of every kind carries the site_id of its user
C36_TokenSiteIsUserSite ==
  \A i \in 1..4 : \A t \in Tables[i] :
    \E u \in users : u.id = t.user_id /\ u.site_id = t.site_id

\* no step changes the site_id of a stored user
C36_SiteIdImmutable ==
  \A u \in users, x \in users' : x.id = u.id => x.site_id = u.site_id

\* C36: in every reachable state each AuthToken, EmailVerificationToken,
\* PasswordResetToken and EmailChangeRequest the orchestrator created has
\* the site_id of the user it belongs to, and the site_id of a user never
\* changes after creation.
C36_TenantConsistency ==
  /\ []C36_TokenSiteIsUserSite
  /\ [][C36_SiteIdImmutable]_vars

\* C36 witness: a user of site 2 holds a session and a token of another
\* kind while a user of site 1 with the same email exists
C36_Witness ==
  \E t \in auth_tokens :
    /\ t.site_id = 2
    /\ \E r \in password_reset_tokens \cup email_change_requests :
         r.user_id = t.user_id /\ r.site_id = 2
    /\ \E u, v \in users :
         /\ u.id = t.user_id /\ v.site_id = 1 /\ v.email = u.email

\* every stored token of every kind refers to a stored user
C37_TokensReferToUsers ==
  \A i \in 1..4 : \A t \in Tables[i] : \E u \in users : u.id = t.user_id

\* once delete_user has removed a user no token of the user is stored, and
\* the sessions it deleted are rejected by the session lookup
C37_DeletedUserHasNoTokens ==
  \A w \in Workers :
    (/\ pc[w] = "done" /\ loc[w].op = "delete_user"
     /\ loc[w].res = "ok") =>
      /\ find_user_by_id(loc[w].user_id) = NoUser
      /\ \A i \in 1..4 : \A t \in Tables[i] : t.user_id # loc[w].user_id
      /\ \A k \in loc[w].deleted : get_user_by_token(k) = NoUser

\* a session inserted by a login is a session of a stored user
C37_LoginAfterDelete ==
  \A w \in Workers :
    (/\ pc[w] = "done" /\ loc[w].op = "login" /\ loc[w].res = "ok"
     /\ find_user_by_id(loc[w].user.id) = NoUser) =>
      get_user_by_token(loc[w].ret) = NoUser

Others(table, k) == {t \in table : t.token # k}

\* no step of a consume operation adds, removes or changes a verification
\* token, reset token or email-change request other than the one it was
\* called with
C38_ConsumeKeepsOthers ==
  \A w \in Workers :
    (pc'[w] # pc[w] /\ loc'[w].op \in ConsumeOps) =>
      \A i \in 2..4 :
        Others(TablesNext[i], loc'[w].token) = Others(Tables[i], loc'[w].token)

\* a token stored beside a consumed one is accepted by its own consume
C38_OthersStayConsumable ==
  \A w \in Workers :
    (/\ pc[w] = "idle" /\ pc'[w] # pc[w]
     /\ loc'[w].op = "reset_password"
     /\ \E t \in password_reset_tokens :
          /\ t.token = loc'[w].token /\ ~t.used /\ t.expires_at >= now) =>
      pc'[w] = "reset_mark"

\* C38: consuming one token changes no other token record: when a user
\* holds several valid verification tokens, reset tokens or email-change
\* requests, consuming one leaves each of the others stored and consumable
\* until its own expiry or consumption.
C38_ConsumeIsLocal ==
  /\ [][C38_ConsumeKeepsOthers]_vars
  /\ [][C38_OthersStayConsumable]_vars

\* C38 witness: a user held two reset tokens and each of them has been
\* consumed once, by a reset_password of its own
C38_Witness ==
  \E a, b \in password_reset_tokens :
    /\ a.token # b.token /\ a.user_id = b.user_id
    /\ a.used /\ b.used
    /\ consumed[a.token].n = 1 /\ consumed[b.token].n = 1
    /\ \E w \in Workers :
         /\ pc[w] = "done" /\ loc[w].op = "reset_password"
         /\ loc[w].res = "ok"

\* C39: login checks in the order user exists, password, verified: an
\* unknown email and a wrong password both end with InvalidCredentials,
\* also for an unverified user, and EmailNotVerified is reached only with
\* the correct password of an unverified user.
C39_LoginCheckOrder ==
  [][\A w \in Workers :
      (pc[w] = "idle" /\ pc'[w] # pc[w] /\ loc'[w].op = "login") =>
        LET found == {u \in users : /\ u.site_id = loc'[w].site_id
                                    /\ u.email = loc'[w].email} IN
        /\ found = {} =>
             pc'[w] = "done" /\ loc'[w].res = "InvalidCredentials"
        /\ \A u \in found :
             /\ (u.password_hash # NullHash
                  /\ u.password_hash.pw # loc'[w].password) =>
                  pc'[w] = "done" /\ loc'[w].res = "InvalidCredentials"
             /\ (pc'[w] = "done" /\ loc'[w].res = "EmailNotVerified") =>
                  /\ ~u.is_verified
                  /\ u.password_hash.pw = loc'[w].password]_vars

\* C39 witness: a wrong password for an unverified user was answered with
\* InvalidCredentials
C39_Witness ==
  \E w \in Workers :
    /\ pc[w] = "done" /\ loc[w].op = "login"
    /\ loc[w].res = "InvalidCredentials"
    /\ \E u \in users :
         /\ u.site_id = loc[w].site_id /\ u.email = loc[w].email
         /\ ~u.is_verified
         /\ u.password_hash # NullHash
         /\ u.password_hash.pw # loc[w].password

====
